---- MODULE Spec2Model ----
(***************************************************************************)
(* The numpipe scheduler (src/numpipe/numpipe.py) together with the block  *)
(* executor (src/numpipe/execution.py), as a state machine.                *)
(*                                                                         *)
(* self.blocks is a Python dict: it is the pair (order, blocks), order     *)
(* being the insertion order of the keys and blocks the mapping from a key *)
(* to the block object's fields.  A Target file is identified by the block *)
(* name that its path embeds ({dirpath}/{filename}-{block_name}.h5).       *)
(***************************************************************************)
EXTENDS Integers, Sequences, FiniteSets, TLC

\* ------------------------------------------------------------------------
\* Bounds
\* ------------------------------------------------------------------------
MaxRuns == 2        \* invocations of the script that a behaviour follows
MaxProcesses == 2   \* largest value given to --processes
CpuCount == 2       \* os.cpu_count() of the host
MaxBlocks == 9      \* most blocks a script registers with add()
MaxCalls == 3       \* most add() calls a script makes
MaxDeps == 2        \* most dependencies a script declares for one block
MaxCapacity == 2    \* largest npcache.records of a streaming cache
MaxAdded == 4       \* most records added to a streaming cache

\* ------------------------------------------------------------------------
\* Sequence helpers (Python list / dict-key-order operations)
\* ------------------------------------------------------------------------
Range(s) == {s[i] : i \in 1..Len(s)}

Min(a, b) == IF a < b THEN a ELSE b

\* list.remove(x): drops the first occurrence of x
RECURSIVE RemoveFirst(_, _)
RemoveFirst(s, x) ==
  IF s = <<>> THEN <<>>
  ELSE IF Head(s) = x THEN Tail(s)
  ELSE <<Head(s)>> \o RemoveFirst(Tail(s), x)

\* the keys of a dict after dict.update / d[k] = v with the keys of t:
\* a key that is already present keeps its position
RECURSIVE DictUpdate(_, _)
DictUpdate(s, t) ==
  IF t = <<>> THEN s
  ELSE DictUpdate(IF Head(t) \in Range(s) THEN s ELSE Append(s, Head(t)), Tail(t))

\* the keys of a dict after dict.pop(k, default) for every k of t
RECURSIVE DictPop(_, _)
DictPop(s, t) ==
  IF t = <<>> THEN s
  ELSE DictPop(SelectSeq(s, LAMBDA k : k /= Head(t)), Tail(t))

\* s without the elements of the list t (list.remove of each, s has no duplicates)
Without(s, t) == SelectSeq(s, LAMBDA k : k \notin Range(t))

EmptyMap == [k \in {} |-> <<>>]

\* ------------------------------------------------------------------------
\* Registries: the scheduler's fields when the script has finished its
\* @cache / add() / depends() calls and is about to call run()
\* ------------------------------------------------------------------------
\* block.__init__: no children, not complete
\* self.filename: the name of the script without its extension
filename == "job"

\* a path that does not depend on the block
filepath_shared(dirpath, block_name) == dirpath \o "/" \o filename \o ".h5"

\* the path that cache(), add() and fix_block_names() give to a Target
filepath(dirpath, block_name) ==
  dirpath \o "/" \o filename \o "-" \o block_name \o ".h5"

NewBlock(fname, path, deps) ==
  [deferred_function |-> fname, kwargs |-> EmptyMap, filepath |-> path,
   dependencies |-> deps, children |-> <<>>, complete |-> FALSE]

\* A; B depends on A; C depends on B
RegChain ==
  [name |-> "chain",
   order |-> <<"A", "B", "C">>,
   blocks |-> [k \in {"A", "B", "C"} |->
                 NewBlock(k, filepath("out", k), CASE k = "A" -> <<>>
                                  [] k = "B" -> <<"A">>
                                  [] k = "C" -> <<"B">>)],
   families |-> <<>>,
   instances |-> EmptyMap,
   instance_counts |-> EmptyMap,
   at_end_functions |-> <<"plot">>,
   dirpath |-> "out"]

\* as in examples/dependency.py: A; family C depends on A, with members added
\* by add(C, i=0) and add(C, i=1); D depends on the family C
RegFamily ==
  [name |-> "family",
   order |-> <<"A", "D", "C-0", "C-1">>,
   blocks |-> [k \in {"A", "D", "C-0", "C-1"} |->
                 CASE k = "A" -> NewBlock("A", filepath("out", "A"), <<>>)
                   [] k = "D" -> NewBlock("D", filepath("out", "D"), <<"C">>)
                   [] k = "C-0" -> NewBlock("C", filepath("out", "C-0"), <<"A">>)
                   [] k = "C-1" -> NewBlock("C", filepath("out", "C-1"), <<"A">>)],
   families |-> <<"C">>,
   instances |-> [f \in {"C"} |-> <<"C-0", "C-1">>],
   instance_counts |-> [f \in {"C"} |-> << [name |-> "", counts |-> 1] >>],
   at_end_functions |-> <<>>,
   dirpath |-> "out"]

\* a family G with one member added by add(G, x=..), and E depending on G
RegSingle ==
  [name |-> "single",
   order |-> <<"E", "G-0">>,
   blocks |-> [k \in {"E", "G-0"} |->
                 CASE k = "E" -> NewBlock("E", filepath("out", "E"), <<"G">>)
                   [] k = "G-0" -> NewBlock("G", filepath("out", "G-0"), <<>>)],
   families |-> <<"G">>,
   instances |-> [f \in {"G"} |-> <<"G-0">>],
   instance_counts |-> [f \in {"G"} |-> << [name |-> "", counts |-> 0] >>],
   at_end_functions |-> <<"plot", "report">>,
   dirpath |-> "out"]

\* A and B independent, C depends on both
RegJoin ==
  [name |-> "join",
   order |-> <<"A", "B", "C">>,
   blocks |-> [k \in {"A", "B", "C"} |->
                 NewBlock(k, filepath("out", k), IF k = "C" THEN <<"A", "B">> ELSE <<>>)],
   families |-> <<>>,
   instances |-> EmptyMap,
   instance_counts |-> EmptyMap,
   at_end_functions |-> <<>>,
   dirpath |-> "out"]

\* A; B depends on A
RegPair ==
  [name |-> "pair",
   order |-> <<"A", "B">>,
   blocks |-> [k \in {"A", "B"} |->
                 NewBlock(k, filepath("out", k), IF k = "B" THEN <<"A">> ELSE <<>>)],
   families |-> <<>>,
   instances |-> EmptyMap,
   instance_counts |-> EmptyMap,
   at_end_functions |-> <<>>,
   dirpath |-> "out"]

Registries == {RegChain, RegFamily, RegSingle, RegJoin, RegPair}

\* ------------------------------------------------------------------------
\* State
\* ------------------------------------------------------------------------
VARIABLES
  reg,                  \* the registry the script builds before run()
  runNo,                \* which invocation of the script this is
  hist,                 \* what the previous invocation did
  order, blocks,        \* self.blocks: key order, key -> block object
  instances,            \* self.instances: family name -> member keys
  files,                \* Target file paths that exist on disk
  files0,               \* files when run() was entered
  data,                 \* Target path -> what the file holds
  args,                 \* self.args
  pc,                   \* position of the coordinator inside run()
  blocks_to_execute,    \* keys of blocks_to_execute, in dict order
  requested,            \* keys of blocks_to_execute when _overwrite is called
  num_blocks_executed,  \* self.num_blocks_executed
  nprocs,               \* width of the worker pool
  remaining,            \* list of keys not yet started
  to_delete,            \* debug mode: keys run in the current pass
  scan,                 \* debug mode: position of the for loop in remaining
  results,              \* pool mode: key -> state of its AsyncResult
  num_blocks_ran, num_exceptions,
  submitted,            \* keys handed to apply_async / execute_block_debug
  executed,             \* keys whose function has been called
  raised,               \* keys whose execute_block call raised
  outcome,              \* key -> how its execute_block call ended
  collected,            \* keys whose result the coordinator has collected
  prompts,              \* file lists shown by display.delete_message
  at_end_ran,           \* end-of-run callables called so far, in order
  h5,                   \* a streaming cache (h5cache) and its datasets on disk
  gen,                  \* execute_block running a generator block
  num_calls,            \* add() calls the script has made
  block_dependencies    \* the frontier of the closure loop that is running

vars == <<reg, runNo, hist, order, blocks, instances, files, files0, data, args, pc,
          blocks_to_execute, requested, num_blocks_executed, nprocs,
          remaining, to_delete, scan, results, num_blocks_ran, num_exceptions,
          submitted, executed, raised, outcome, collected, prompts, at_end_ran,
          h5, gen, num_calls, block_dependencies>>

\* ------------------------------------------------------------------------
\* target.exists / scheduler.fix_block_names / scheduler.get_labels
\* ------------------------------------------------------------------------
\* target.exists(): os.path.isfile(self.filepath)
exists(bs, fs, k) == bs[k].filepath \in fs

\* one renaming step of fix_block_names for the label `name` of func_name;
\* st = [order, blocks, instances, error]
FixOne(st, func_name, name) ==
  LET old_block_name == IF name /= "" THEN func_name \o "-" \o name \o "-0"
                                      ELSE func_name \o "-0"
      new_block_name == IF name /= "" THEN func_name \o "-" \o name
                                      ELSE func_name
      members == st.instances[func_name]
      index == CHOOSE i \in 1..Len(members) :
                 /\ members[i] = old_block_name
                 /\ \A j \in 1..(i-1) : members[j] /= old_block_name
  IN IF st.error \/ old_block_name \notin DOMAIN st.blocks
          \/ old_block_name \notin Range(members)
       THEN [st EXCEPT !.error = TRUE]
       ELSE [order |-> DictPop(DictUpdate(st.order, <<new_block_name>>),
                               <<old_block_name>>),
             blocks |-> [k \in (DOMAIN st.blocks \cup {new_block_name})
                                  \ {old_block_name} |->
                           IF k = new_block_name
                             THEN [st.blocks[old_block_name]
                                     EXCEPT !.filepath =
                                       filepath(st.dirpath, new_block_name)]
                             ELSE st.blocks[k]],
             instances |-> [st.instances EXCEPT
                              ![func_name] = [members EXCEPT ![index] = new_block_name]],
             error |-> FALSE,
             dirpath |-> st.dirpath]

\* the inner loop of fix_block_names over the labels of one function
RECURSIVE FixLabels(_, _, _)
FixLabels(st, func_name, D) ==
  IF D = <<>> THEN st
  ELSE FixLabels(IF Head(D).counts = 0 THEN FixOne(st, func_name, Head(D).name)
                                       ELSE st,
                 func_name, Tail(D))

\* the outer loop of fix_block_names over self.instance_counts
RECURSIVE FixFamilies(_, _, _)
FixFamilies(st, fams, counts) ==
  IF fams = <<>> THEN st
  ELSE FixFamilies(FixLabels(st, Head(fams), counts[Head(fams)]), Tail(fams), counts)

fix_block_names(dirpath, ord, bs, inst, fams, counts) ==
  FixFamilies([order |-> ord, blocks |-> bs, instances |-> inst, error |-> FALSE,
               dirpath |-> dirpath],
              fams, counts)

\* the registry of r as run() sees it after fix_block_names
Fixed(r) ==
  fix_block_names(r.dirpath, r.order, r.blocks, r.instances, r.families,
                  r.instance_counts)

\* the Target paths of the registered blocks of r
TargetsOf(r) == {Fixed(r).blocks[k].filepath : k \in DOMAIN Fixed(r).blocks}

\* str.find('-'): 0-based index of the first '-', -1 when there is none
RECURSIVE FindFrom(_, _)
FindFrom(s, i) ==
  IF i > Len(s) THEN -1
  ELSE IF SubSeq(s, i, i) = "-" THEN i - 1
  ELSE FindFrom(s, i + 1)

find(s) == FindFrom(s, 1)

\* name[-3:]
Last3(name) == SubSeq(name, IF Len(name) > 3 THEN Len(name) - 2 ELSE 1, Len(name))

\* name[name.find('-')+1:-3]
actual_name(name) == SubSeq(name, find(name) + 2, Len(name) - 3)

\* get_labels(name): [ok, labels]; ok = FALSE is the ValueError
get_labels(bs, inst, name) ==
  IF name \in DOMAIN bs THEN [ok |-> TRUE, labels |-> <<name>>]
  ELSE IF name \in DOMAIN inst THEN [ok |-> TRUE, labels |-> inst[name]]
  ELSE IF Last3(name) = ".h5" /\ actual_name(name) \in DOMAIN bs
    THEN [ok |-> TRUE, labels |-> <<actual_name(name)>>]
  ELSE [ok |-> FALSE, labels |-> <<>>]

\* get_labels of every name of a list, concatenated: [ok, labels]
RECURSIVE AllLabels(_, _, _)
AllLabels(bs, inst, names) ==
  IF names = <<>> THEN [ok |-> TRUE, labels |-> <<>>]
  ELSE LET h == get_labels(bs, inst, Head(names))
           t == AllLabels(bs, inst, Tail(names))
       IN [ok |-> h.ok /\ t.ok, labels |-> h.labels \o t.labels]

\* ------------------------------------------------------------------------
\* scheduler.resolve_dependencies_down
\* ------------------------------------------------------------------------
\* the loop over copy(block.dependencies) of one block: an instance-family
\* name is removed and the members of the family are appended
RECURSIVE NormalizeDeps(_, _, _)
NormalizeDeps(deps, cp, inst) ==
  IF cp = <<>> THEN deps
  ELSE NormalizeDeps(IF Head(cp) \in DOMAIN inst
                       THEN RemoveFirst(deps, Head(cp)) \o inst[Head(cp)]
                       ELSE deps,
                     Tail(cp), inst)

\* first loop of resolve_dependencies_down, over every block of self.blocks
Normalize(bs, inst) ==
  [k \in DOMAIN bs |->
     [bs[k] EXCEPT !.dependencies = NormalizeDeps(@, @, inst)]]

\* line 606-608 for one block: st = [blocks, error]; error is the KeyError of
\* self.blocks[D] for a dependency that names no registered block
RECURSIVE AddChild(_, _, _)
AddChild(st, label, deps) ==
  IF st.error \/ deps = <<>> THEN st
  ELSE LET D == Head(deps)
       IN IF D \notin DOMAIN st.blocks THEN [st EXCEPT !.error = TRUE]
          ELSE AddChild(
                 IF label \in Range(st.blocks[D].children) THEN st
                 ELSE [st EXCEPT !.blocks[D].children = Append(@, label)],
                 label, Tail(deps))

\* second loop of resolve_dependencies_down, over self.blocks in dict order
RECURSIVE LinkChildren(_, _)
LinkChildren(st, ord) ==
  IF st.error \/ ord = <<>> THEN st
  ELSE LinkChildren(AddChild(st, Head(ord), st.blocks[Head(ord)].dependencies),
                    Tail(ord))

\* new_blocks after the for loops of one round of the DOWN loop, in insertion order
NewDown(bs, frontier) ==
  LET RECURSIVE go(_, _)
      go(acc, fr) == IF fr = <<>> THEN acc
                     ELSE go(DictUpdate(acc, bs[Head(fr)].children), Tail(fr))
  IN go(<<>>, frontier)

\* a DOWN loop that stops after its first round: children, not their children
DownLoop_once(bs, blks, frontier) ==
  DictUpdate(blks, NewDown(bs, frontier))

\* while block_dependencies: ... blocks.update(new_blocks); frontier is
\* block_dependencies
RECURSIVE DownLoop(_, _, _)
DownLoop(bs, blks, frontier) ==
  IF frontier = <<>> THEN blks
  ELSE LET new_blocks == NewDown(bs, frontier)
       IN DownLoop(bs, DictUpdate(blks, new_blocks), new_blocks)

\* resolve_dependencies_down(blocks): [blocks, blocks_to_execute, error]
resolve_dependencies_down(ord, bs, inst, blks, a) ==
  LET linked == LinkChildren([blocks |-> Normalize(bs, inst), error |-> FALSE], ord)
  IN [blocks |-> linked.blocks,
      error |-> linked.error,
      blocks_to_execute |->
        IF linked.error THEN blks
        ELSE IF a.rerun.given /\ Len(a.rerun.names) /= 0 /\ ~a.no_deps
          THEN DownLoop(linked.blocks, blks, blks)
        ELSE blks]

\* ------------------------------------------------------------------------
\* scheduler.resolve_dependencies_up
\* ------------------------------------------------------------------------
\* UP loop body that never sets complete on a dependency whose Target exists
RECURSIVE UpDeps_nomark(_, _, _)
UpDeps_nomark(st, deps, fs) ==
  IF deps = <<>> THEN st
  ELSE UpDeps_nomark(IF ~exists(st.blocks, fs, Head(deps))
                       THEN [st EXCEPT !.new_blocks = DictUpdate(@, <<Head(deps)>>)]
                       ELSE st,
                     Tail(deps), fs)

\* UP loop body that never adds a dependency whose Target is missing
RECURSIVE UpDeps_noadd(_, _, _)
UpDeps_noadd(st, deps, fs) ==
  IF deps = <<>> THEN st
  ELSE UpDeps_noadd(IF ~exists(st.blocks, fs, Head(deps)) THEN st
                    ELSE [st EXCEPT !.blocks[Head(deps)].complete = TRUE],
                    Tail(deps), fs)

\* the for loops of one round of the UP loop: st = [blocks, new_blocks]
RECURSIVE UpDeps(_, _, _)
UpDeps(st, deps, fs) ==
  IF deps = <<>> THEN st
  ELSE LET dependency == Head(deps)
       IN UpDeps(IF ~exists(st.blocks, fs, dependency)
                   THEN [st EXCEPT !.new_blocks = DictUpdate(@, <<dependency>>)]
                   ELSE [st EXCEPT !.blocks[dependency].complete = TRUE],
                 Tail(deps), fs)

RECURSIVE UpRound(_, _, _)
UpRound(st, frontier, fs) ==
  IF frontier = <<>> THEN st
  ELSE UpRound(UpDeps(st, st.blocks[Head(frontier)].dependencies, fs),
               Tail(frontier), fs)

\* while block_dependencies: ... blocks.update(new_blocks); frontier is
\* block_dependencies
RECURSIVE UpLoop(_, _, _, _)
UpLoop(bs, blks, frontier, fs) ==
  IF frontier = <<>> THEN [blocks |-> bs, blocks_to_execute |-> blks]
  ELSE LET r == UpRound([blocks |-> bs, new_blocks |-> <<>>], frontier, fs)
       IN UpLoop(r.blocks, DictUpdate(blks, r.new_blocks), r.new_blocks, fs)

\* resolve_dependencies_up(blocks): [blocks, blocks_to_execute]
resolve_dependencies_up(bs, blks, fs) == UpLoop(bs, blks, blks, fs)

\* ------------------------------------------------------------------------
\* scheduler._overwrite, scheduler.ready_to_run
\* ------------------------------------------------------------------------
\* the file paths of the targets of the keys of a list
Filepaths(bs, keys) == [i \in 1..Len(keys) |-> bs[keys[i]].filepath]

\* _overwrite that approves without removing anything
overwrite_keep(targets, fs, force, answer) ==
  LET filepaths == SelectSeq(targets, LAMBDA t : t \in fs)
      asked == filepaths /= <<>> /\ ~force
  IN [ok |-> ~(asked /\ ~answer), files |-> fs,
      prompts |-> IF asked THEN <<Range(filepaths)>> ELSE <<>>]

\* _overwrite that removes the files before it asks
overwrite_eager(targets, fs, force, answer) ==
  LET filepaths == SelectSeq(targets, LAMBDA t : t \in fs)
      asked == filepaths /= <<>> /\ ~force
  IN [ok |-> ~(asked /\ ~answer), files |-> fs \ Range(filepaths),
      prompts |-> IF asked THEN <<Range(filepaths)>> ELSE <<>>]

\* _overwrite(targets): answer is what display.delete_message returns;
\* [ok, files, prompts]
overwrite(targets, fs, force, answer) ==
  LET filepaths == SelectSeq(targets, LAMBDA t : t \in fs)
      asked == filepaths /= <<>> /\ ~force
  IN IF asked /\ ~answer
       THEN [ok |-> FALSE, files |-> fs, prompts |-> <<Range(filepaths)>>]
       ELSE [ok |-> TRUE, files |-> fs \ Range(filepaths),
             prompts |-> IF asked THEN <<Range(filepaths)>> ELSE <<>>]

\* ready_to_run that does not look at the dependencies
ready_to_run_always(bs, k) == TRUE

\* ready_to_run(block)
ready_to_run(bs, k) ==
  \A i \in 1..Len(bs[k].dependencies) : bs[bs[k].dependencies[i]].complete

\* ------------------------------------------------------------------------
\* Command lines (parser.run_parser)
\* ------------------------------------------------------------------------
NoNames == [given |-> FALSE, names |-> <<>>]

\* the values argparse gives when no flag is passed
DefaultArgs ==
  [action |-> "run", rerun |-> NoNames, delete |-> NoNames, exclude |-> <<>>,
   force |-> FALSE, at_end |-> FALSE, no_at_end |-> FALSE, no_deps |-> FALSE,
   debug |-> FALSE, processes |-> [given |-> FALSE, n |-> 0]]

\* names a user can pass: block names, family names, and one that is neither
NameArgs(r) == DOMAIN Fixed(r).blocks \cup DOMAIN r.instances \cup {"nope"}

\* --rerun / --delete values: flag absent, flag without names, flag with a name
NameOpts(r) ==
  {NoNames, [given |-> TRUE, names |-> <<>>]}
    \cup {[given |-> TRUE, names |-> <<n>>] : n \in NameArgs(r)}

ExcludeOpts(r) == {<<>>} \cup {<<n>> : n \in NameArgs(r)}

\* plain runs: every combination of --rerun, --exclude, --force, --no-deps, --debug
RunArgs(r) ==
  {[DefaultArgs EXCEPT !.rerun = rr, !.exclude = ex, !.force = f,
                       !.no_deps = nd, !.debug = d] :
     rr \in NameOpts(r), ex \in ExcludeOpts(r), f \in BOOLEAN, nd \in BOOLEAN,
     d \in BOOLEAN}

\* the flags that have an effect only together with others are left at their
\* default where they have none
Effective(a) ==
  /\ a.force => a.rerun.given
  /\ a.no_deps => (a.rerun.given /\ a.rerun.names /= <<>>)

ProcessArgs ==
  {[DefaultArgs EXCEPT !.rerun = rr, !.force = rr.given,
                       !.processes = [given |-> TRUE, n |-> n]] :
     rr \in {NoNames, [given |-> TRUE, names |-> <<>>]}, n \in 1..MaxProcesses}

AtEndArgs ==
  {[DefaultArgs EXCEPT !.at_end = ae, !.no_at_end = nae] :
     ae \in BOOLEAN, nae \in BOOLEAN}

DeleteArgs(r) ==
  {[DefaultArgs EXCEPT !.delete = dl, !.force = f] :
     dl \in NameOpts(r) \ {NoNames}, f \in BOOLEAN}

OtherArgs ==
  {[DefaultArgs EXCEPT !.action = act, !.force = f] :
     act \in {"display", "clean", "slurm"}, f \in BOOLEAN}

\* --delete together with --rerun or --exclude
MixedArgs ==
  {[DefaultArgs EXCEPT !.delete = [given |-> TRUE, names |-> <<>>],
                       !.rerun = rr, !.exclude = ex] :
     rr \in {NoNames, [given |-> TRUE, names |-> <<"nope">>]},
     ex \in {<<>>, <<"nope">>}}

ArgsOf(r) ==
  {a \in RunArgs(r) : Effective(a)} \cup ProcessArgs \cup AtEndArgs
    \cup DeleteArgs(r) \cup MixedArgs \cup OtherArgs

\* the command lines tried on each registry
ArgsSet == [r \in Registries |-> ArgsOf(r)]

\* ------------------------------------------------------------------------
\* The streaming cache (numflow/h5cache.py)
\* ------------------------------------------------------------------------
\* h5cache.__init__; records is the capacity that npcache.__init__ computes
\* for every symbol.  names: keys of self.cache in insertion order; cache:
\* name -> buffered records (current_record is its length); dset: name ->
\* records of the dataset on disk; elapsed: more than cache_time has passed
\* since time_start; added, auto_flushes, explicit_flushes, last record what
\* the caller has done
h5cache(records) ==
  [records |-> records, names |-> <<>>, cache |-> EmptyMap, dset |-> EmptyMap,
   elapsed |-> FALSE, error |-> FALSE, added |-> EmptyMap,
   auto_flushes |-> 0, explicit_flushes |-> 0, last |-> "none"]

\* m with the key k set to v
Put(m, k, v) == [j \in DOMAIN m \cup {k} |-> IF j = k THEN v ELSE m[j]]

\* the loop of flush() over self.cache.keys(): the dataset is resized by
\* current_record and dset[-current_record:] is assigned the buffered
\* records.  With current_record = 0 the slice is dset[0:], the whole
\* dataset, and assigning zero records to a non-empty selection raises
RECURSIVE flush_names(_, _)
flush_names(h, names) ==
  IF h.error \/ names = <<>> THEN h
  ELSE LET name == Head(names)
           current_record == Len(h.cache[name])
       IN flush_names(
            IF current_record = 0 /\ Len(h.dset[name]) > 0
              THEN [h EXCEPT !.error = TRUE]
              ELSE [h EXCEPT !.dset[name] = @ \o h.cache[name],
                             !.cache[name] = <<>>],
            Tail(names))

\* h5cache.flush()
flush(h) == flush_names(h, h.names)

\* lines 104-119: the first record of a symbol creates its dataset and buffer
create_dataset(h, name) ==
  IF name \in DOMAIN h.cache THEN h
  ELSE [h EXCEPT !.names = Append(@, name),
                 !.cache = Put(@, name, <<>>),
                 !.dset = Put(@, name, <<>>)]

\* h5cache.add(name, record)
cache_add(h, name, record) ==
  LET c == create_dataset(h, name)
      full == Len(c.cache[name]) = c.records
      b == [c EXCEPT !.cache[name] = Append(@, record)]
      is_full == Len(b.cache[name]) = b.records
      f == flush(b)
  IN IF full THEN [c EXCEPT !.error = TRUE]
     ELSE IF is_full \/ b.elapsed
       THEN IF f.error THEN f
            ELSE [f EXCEPT !.elapsed = FALSE, !.auto_flushes = @ + 1]
     ELSE b

\* the records added so far, over all symbols
RECURSIVE TotalAdded(_, _)
TotalAdded(h, names) ==
  IF names = <<>> THEN 0 ELSE Len(h.added[Head(names)]) + TotalAdded(h, Tail(names))

\* execute_block on a generator block.  pc: "none" (no generator block is
\* being executed), "iterating" (in the loop of line 120), "returned"
\* (execute_block returned), "failed" (an exception left execute_block);
\* error: the exception that left it, "named" for the one of line 147 that
\* carries the block's name, "other" for any other; raised: the generator
\* itself raised; yielded: name -> the records the generator yielded;
\* instance: the block is a member of an instance family
NoGenerator ==
  [pc |-> "none", error |-> "none", raised |-> FALSE, yielded |-> EmptyMap,
   instance |-> FALSE]

\* lines 125-126: cache.add for every symbol of the yielded mapping, in order;
\* an add that raises ends the loop
RECURSIVE add_symbols(_, _, _)
add_symbols(h, names, record) ==
  IF h.error \/ names = <<>> THEN h
  ELSE add_symbols(cache_add(h, Head(names), record), Tail(names), record)

\* lines 143-147: the except clause flushes the cache and then raises the
\* exception that names the block; an exception raised by that flush leaves
\* the clause in its place
except_clause(h) == flush([h EXCEPT !.error = FALSE])

\* the exception that leaves the except clause
propagated(h) == IF except_clause(h).error THEN "other" ELSE "named"

\* the records of the mapping appended to those yielded before
RECURSIVE Yielded(_, _, _)
Yielded(y, names, record) ==
  IF names = <<>> THEN y
  ELSE Yielded(Put(y, Head(names),
                   (IF Head(names) \in DOMAIN y THEN y[Head(names)] ELSE <<>>)
                     \o <<record>>),
               Tail(names), record)

\* the records yielded so far, over all symbols
RECURSIVE TotalOver(_, _)
TotalOver(y, names) ==
  IF names = {} THEN 0
  ELSE LET name == CHOOSE n \in names : TRUE
       IN Len(y[name]) + TotalOver(y, names \ {name})

TotalYielded(y) == TotalOver(y, DOMAIN y)

\* ------------------------------------------------------------------------
\* Target file contents
\* ------------------------------------------------------------------------
\* the dict that a cached function returns when it returns one
Symbols(fname) == IF fname = "B" THEN [x |-> 3] ELSE [x |-> 2]

\* a Target file that has just been created by h5py.File(filepath, 'a')
NewFile == [args |-> FALSE, symbols |-> EmptyMap]

\* what a complete earlier run left in the Target file f of the registry fx
Stored(fx, f) ==
  LET k == CHOOSE b \in DOMAIN fx.blocks : fx.blocks[b].filepath = f
      fn == fx.blocks[k].deferred_function
  IN [args |-> fn \in DOMAIN fx.instances /\ k \in Range(fx.instances[fn]),
      symbols |-> Symbols(fn)]

\* ------------------------------------------------------------------------
\* Init: the script has registered its blocks; some Targets are on disk
\* ------------------------------------------------------------------------
NoHist == [default |-> FALSE, pc |-> "none", raised |-> {}, executed |-> {}]

\* the coordinator's variables of one invocation, before run() is called
Fresh(r) ==
  /\ order = r.order
  /\ blocks = r.blocks
  /\ instances = r.instances
  /\ args = DefaultArgs
  /\ pc = "idle"
  /\ blocks_to_execute = <<>>
  /\ requested = <<>>
  /\ num_blocks_executed = 0
  /\ nprocs = 0
  /\ remaining = <<>>
  /\ to_delete = <<>>
  /\ scan = 1
  /\ results = EmptyMap
  /\ num_blocks_ran = 0
  /\ num_exceptions = 0
  /\ submitted = {}
  /\ executed = {}
  /\ raised = {}
  /\ outcome = EmptyMap
  /\ collected = {}
  /\ prompts = <<>>
  /\ at_end_ran = <<>>

Init ==
  /\ reg \in Registries
  /\ runNo = 1
  /\ hist = NoHist
  /\ files \in SUBSET TargetsOf(reg)
  /\ files0 = files
  /\ data = [f \in files |-> Stored(Fixed(reg), f)]
  /\ Fresh(reg)
  /\ h5 = h5cache(1)
  /\ gen = NoGenerator
  /\ num_calls = 0
  /\ block_dependencies = <<>>

\* ------------------------------------------------------------------------
\* scheduler.run, up to the start of the dispatch loop
\* ------------------------------------------------------------------------
\* the default selection taking every block, whether its Target exists or not
Select_every(ord, bs, inst, fs, a) ==
  IF ~a.rerun.given \/ Len(a.rerun.names) = 0
    THEN [ok |-> TRUE, alias |-> a.rerun.given, keys |-> ord]
  ELSE LET ls == AllLabels(bs, inst, a.rerun.names)
       IN [ok |-> ls.ok, alias |-> FALSE, keys |-> DictUpdate(<<>>, ls.labels)]

\* lines 151-159: the raw selection; alias: blocks_to_execute is self.blocks
\* itself; ok = FALSE is the ValueError of get_labels
Select(ord, bs, inst, fs, a) ==
  IF ~a.rerun.given
    THEN [ok |-> TRUE, alias |-> FALSE,
          keys |-> SelectSeq(ord, LAMBDA k : ~exists(bs, fs, k))]
  ELSE IF Len(a.rerun.names) = 0
    THEN [ok |-> TRUE, alias |-> TRUE, keys |-> ord]
  ELSE LET ls == AllLabels(bs, inst, a.rerun.names)
       IN [ok |-> ls.ok, alias |-> FALSE, keys |-> DictUpdate(<<>>, ls.labels)]

\* lines 161-163: st = [order, blocks, keys, error]; when blocks_to_execute
\* is self.blocks the pop removes the block from the registry
RECURSIVE Exclude(_, _, _, _)
Exclude(st, names, inst, alias) ==
  IF st.error \/ names = <<>> THEN st
  ELSE LET gl == get_labels(st.blocks, inst, Head(names))
           keys == DictPop(st.keys, gl.labels)
       IN IF ~gl.ok THEN [st EXCEPT !.error = TRUE]
          ELSE Exclude([order |-> IF alias THEN keys ELSE st.order,
                        blocks |-> IF alias THEN [k \in Range(keys) |-> st.blocks[k]]
                                            ELSE st.blocks,
                        keys |-> keys, error |-> FALSE],
                       Tail(names), inst, alias)

\* a delete() that takes an empty name list as "no target"
delete_nothing_unnamed(ord, bs, inst, fs, a, answer) ==
  LET ls == AllLabels(bs, inst, a.delete.names)
      ow == overwrite(Filepaths(bs, ls.labels), fs, a.force, answer)
  IN IF ls.ok THEN [error |-> FALSE, files |-> ow.files, prompts |-> ow.prompts]
     ELSE [error |-> TRUE, files |-> fs, prompts |-> <<>>]

\* scheduler.delete(): [error, files, prompts]
delete(ord, bs, inst, fs, a, answer) ==
  LET ls == IF Len(a.delete.names) = 0 THEN [ok |-> TRUE, labels |-> ord]
            ELSE AllLabels(bs, inst, a.delete.names)
      ow == overwrite(Filepaths(bs, ls.labels), fs, a.force, answer)
  IN IF ls.ok THEN [error |-> FALSE, files |-> ow.files, prompts |-> ow.prompts]
     ELSE [error |-> TRUE, files |-> fs, prompts |-> <<>>]

\* a path with every run of '/' collapsed into one
RECURSIVE Collapse(_)
Collapse(s) ==
  IF Len(s) <= 1 THEN s
  ELSE IF SubSeq(s, 1, 2) = "//" THEN Collapse(SubSeq(s, 2, Len(s)))
  ELSE SubSeq(s, 1, 1) \o Collapse(SubSeq(s, 2, Len(s)))

\* str(pathlib.Path(s)): repeated and trailing slashes are dropped
PurePath(s) ==
  LET c == Collapse(s)
  IN IF Len(c) > 1 /\ SubSeq(c, Len(c), Len(c)) = "/"
       THEN SubSeq(c, 1, Len(c) - 1) ELSE c

\* the 1-based index of the last '/' of s at or before i, 0 when there is none
RECURSIVE LastSlash(_, _)
LastSlash(s, i) ==
  IF i = 0 THEN 0
  ELSE IF SubSeq(s, i, i) = "/" THEN i
  ELSE LastSlash(s, i - 1)

\* the directory and the file name of a path
Parent(s) == SubSeq(s, 1, LastSlash(s, Len(s)) - 1)
Name(s) == SubSeq(s, LastSlash(s, Len(s)) + 1, Len(s))

\* the file name matches the pattern f'{self.filename}-*.h5'
Matches(n) ==
  /\ Len(n) >= Len(filename) + 4
  /\ SubSeq(n, 1, Len(filename) + 1) = filename \o "-"
  /\ SubSeq(n, Len(n) - 2, Len(n)) = ".h5"

\* str(path) for the paths of pathlib.Path(dirpath).glob(f'{filename}-*.h5'),
\* fs being the files on disk under the names they were created with
glob(dirpath, fs) ==
  {PurePath(f) : f \in {g \in fs : /\ Parent(PurePath(g)) = PurePath(dirpath)
                                    /\ Matches(Name(PurePath(g)))}}

\* scheduler.clean() with scheduler._clean(): [confirm, files, prompts];
\* os.remove(filepath) removes the file that the path names
clean(dirpath, bs, fs, a, answer) ==
  LET pathlist == glob(dirpath, fs)
      current == {bs[k].filepath : k \in DOMAIN bs}
      filepaths == {path_str \in pathlist : path_str \notin current}
      asked == filepaths /= {} /\ ~a.force
  IN IF asked /\ ~answer
       THEN [confirm |-> FALSE, files |-> fs, prompts |-> <<filepaths>>]
       ELSE [confirm |-> TRUE,
             files |-> {f \in fs : PurePath(f) \notin filepaths},
             prompts |-> IF asked THEN <<filepaths>> ELSE <<>>]

\* what run() has done when it reaches the dispatch loop or returns before it
Outcome(p, ord, bs, inst, fs, blks, req, n, np, pr) ==
  [pc |-> p, order |-> ord, blocks |-> bs, instances |-> inst, files |-> fs,
   blocks_to_execute |-> blks, requested |-> req, num_blocks_executed |-> n,
   nprocs |-> np, prompts |-> pr]

\* lines 173-195: the upward closure, then slurm, debug or pool
Dispatching(fx, a, alias, exc, down, ow, up) ==
  Outcome(IF a.action = "slurm" THEN "done"
          ELSE IF Len(down.blocks_to_execute) = 0 THEN "at_end"
          ELSE IF a.debug THEN "debug" ELSE "pool_submit",
          IF alias THEN up.blocks_to_execute ELSE exc.order,
          up.blocks, fx.instances, ow.files,
          up.blocks_to_execute, down.blocks_to_execute,
          Len(down.blocks_to_execute),
          IF a.action = "slurm" THEN 0
          ELSE Min(IF a.processes.given THEN a.processes.n ELSE CpuCount,
                   Len(down.blocks_to_execute)),
          ow.prompts)

\* lines 168-171: a declined confirmation returns from run()
Overwritten(fx, a, alias, exc, down, ow) ==
  IF ~ow.ok
    THEN Outcome("aborted", exc.order, down.blocks, fx.instances, ow.files,
                 down.blocks_to_execute, down.blocks_to_execute,
                 Len(down.blocks_to_execute), 0, ow.prompts)
    ELSE Dispatching(fx, a, alias, exc, down, ow,
                     resolve_dependencies_up(down.blocks, down.blocks_to_execute,
                                             ow.files))

\* lines 165-168: a KeyError of resolve_dependencies_down leaves run()
Resolved(fx, a, answer, alias, exc, down) ==
  IF down.error
    THEN Outcome("error", exc.order, down.blocks, fx.instances, files,
                 exc.keys, <<>>, 0, 0, <<>>)
    ELSE Overwritten(fx, a, alias, exc, down,
                     overwrite(Filepaths(down.blocks, down.blocks_to_execute),
                               files, a.force, answer))

\* lines 161-165: a ValueError of get_labels leaves run()
Excluded(fx, a, answer, alias, exc) ==
  IF exc.error
    THEN Outcome("error", exc.order, exc.blocks, fx.instances, files,
                 exc.keys, <<>>, 0, 0, <<>>)
    ELSE Resolved(fx, a, answer, alias, exc,
                  resolve_dependencies_down(exc.order, exc.blocks, fx.instances,
                                            exc.keys, a))

\* lines 151-161
Selected(fx, a, answer, sel) ==
  IF ~sel.ok
    THEN Outcome("error", fx.order, fx.blocks, fx.instances, files,
                 <<>>, <<>>, 0, 0, <<>>)
    ELSE Excluded(fx, a, answer, sel.alias,
                  Exclude([order |-> fx.order, blocks |-> fx.blocks,
                           keys |-> sel.keys, error |-> FALSE],
                          a.exclude, fx.instances, sel.alias))

\* run() returns without touching the disk or selecting anything
Quiet(fx, p) ==
  Outcome(p, fx.order, fx.blocks, fx.instances, files, <<>>, <<>>, 0, 0, <<>>)

\* lines 139-141
Cleaned(fx, c) ==
  [Quiet(fx, IF c.confirm THEN "done" ELSE "aborted")
     EXCEPT !.files = c.files, !.prompts = c.prompts]

\* lines 143-145
Deleted(fx, d) ==
  [Quiet(fx, IF d.error THEN "error" ELSE "done")
     EXCEPT !.files = d.files, !.prompts = d.prompts]

\* lines 129-195 of run(), fx being the registry after fix_block_names
Fixed_names(fx, a, answer) ==
  IF fx.error THEN Quiet(fx, "error")
  ELSE IF a.action = "display" THEN Quiet(fx, "done")
  ELSE IF a.action = "clean" THEN Cleaned(fx, clean(reg.dirpath, fx.blocks, files, a, answer))
  ELSE IF a.delete.given
    THEN Deleted(fx, delete(fx.order, fx.blocks, fx.instances, files, a, answer))
  ELSE IF a.at_end THEN Quiet(fx, "at_end")
  ELSE Selected(fx, a, answer,
                Select(fx.order, fx.blocks, fx.instances, files, a))

\* lines 125-195 of run()
RunOutcome(a, answer) ==
  Fixed_names(fix_block_names(reg.dirpath, order, blocks, instances,
                              reg.families, reg.instance_counts),
              a, answer)

\* run() is entered with the command line a; answer is the user's reply to
\* the confirmation prompt, if one is shown
Run(a, answer) ==
  /\ pc = "idle"
  /\ \E out \in {RunOutcome(a, answer)} :
        /\ pc' = out.pc
        /\ order' = out.order
        /\ blocks' = out.blocks
        /\ instances' = out.instances
        /\ files' = out.files
        /\ data' = [f \in out.files |-> data[f]]
        /\ blocks_to_execute' = out.blocks_to_execute
        /\ requested' = out.requested
        /\ num_blocks_executed' = out.num_blocks_executed
        /\ nprocs' = out.nprocs
        /\ prompts' = out.prompts
        /\ remaining' = IF out.pc \in {"debug", "pool_submit"}
                          THEN out.blocks_to_execute ELSE <<>>
  /\ args' = a
  /\ files0' = files
  /\ UNCHANGED <<block_dependencies, num_calls, gen, h5, reg, runNo, hist, to_delete, scan, results, num_blocks_ran,
                 num_exceptions, submitted, executed, raised, outcome, collected,
                 at_end_ran>>

\* ------------------------------------------------------------------------
\* execution.execute_block / execute_block_debug
\* ------------------------------------------------------------------------
\* what calling a block's function can give
Returns == {"dict", "None", "other", "raise"}

\* the file contents after target.write_args(func.kwargs)
write_args_data(bs, inst, dt, name) ==
  LET fn == bs[name].deferred_function
      f == bs[name].filepath
  IN IF fn \in DOMAIN inst /\ name \in Range(inst[fn])
       THEN [g \in DOMAIN dt \cup {f} |->
               IF g = f THEN [(IF f \in DOMAIN dt THEN dt[f] ELSE NewFile)
                                EXCEPT !.args = TRUE]
               ELSE dt[g]]
       ELSE dt

\* a target.write that creates the file and stores no symbol in it
write_symbols_data_empty(bs, dt, name, ret) ==
  LET f == bs[name].filepath
  IN IF ret \notin {"dict", "None"} THEN dt
     ELSE [g \in DOMAIN dt \cup {f} |->
             IF g = f /\ f \notin DOMAIN dt THEN NewFile ELSE dt[g]]

\* a target.write that stores the function's symbols also when it returned None
write_symbols_data_always(bs, dt, name, ret) ==
  LET f == bs[name].filepath
      old == IF f \in DOMAIN dt THEN dt[f] ELSE NewFile
  IN IF ret \notin {"dict", "None"} THEN dt
     ELSE [g \in DOMAIN dt \cup {f} |->
             IF g = f
               THEN [old EXCEPT !.symbols = Symbols(bs[name].deferred_function)]
               ELSE dt[g]]

\* the file contents after target.write(symbols): f[name] = symbol for every
\* symbol of the dict, nothing for None
write_symbols_data(bs, dt, name, ret) ==
  LET f == bs[name].filepath
      old == IF f \in DOMAIN dt THEN dt[f] ELSE NewFile
      symbols == IF ret = "dict" THEN Symbols(bs[name].deferred_function)
                 ELSE EmptyMap
  IN IF ret \notin {"dict", "None"} THEN dt
     ELSE [g \in DOMAIN dt \cup {f} |->
             IF g = f
               THEN [old EXCEPT !.symbols =
                       [n \in DOMAIN old.symbols \cup DOMAIN symbols |->
                          IF n \in DOMAIN symbols THEN symbols[n] ELSE old.symbols[n]]]
               ELSE dt[g]]

\* fileio.load_symbols: the Bunch of the file's datasets, with the key 'args'
\* when the file's args group holds arguments
load_symbols(dt, f) ==
  [n \in DOMAIN dt[f].symbols \cup (IF dt[f].args THEN {"args"} ELSE {}) |->
     IF n \in DOMAIN dt[f].symbols THEN dt[f].symbols[n] ELSE "Bunch"]

\* target.load()
load(bs, dt, k) == load_symbols(dt, bs[k].filepath)

\* lines 109-112: the members of an instance family get their arguments
\* written first, which creates the Target file
write_args(bs, inst, fs, name) ==
  LET fn == bs[name].deferred_function
  IN IF fn \in DOMAIN inst /\ name \in Range(inst[fn])
       THEN fs \cup {bs[name].filepath}
       ELSE fs

\* lines 115-141: a dict or None is written to the Target, anything else raises
Raises(ret) == ret \notin {"dict", "None"}

\* an executor that writes nothing when the function returns None
write_symbols_skip_none(bs, fs, name, ret) ==
  IF ret = "dict" THEN fs \cup {bs[name].filepath} ELSE fs

write_symbols(bs, fs, name, ret) ==
  IF Raises(ret) THEN fs ELSE fs \cup {bs[name].filepath}

\* ------------------------------------------------------------------------
\* The dispatch loop in pool mode (lines 217-259)
\* ------------------------------------------------------------------------
Running == {k \in DOMAIN results : results[k] = "running"}

\* a submit step that leaves the submitted blocks in remaining
PoolSubmit_keep ==
  /\ pc = "pool_submit"
  /\ LET ready == SelectSeq(remaining, LAMBDA k : ready_to_run(blocks, k))
     IN /\ results' = [k \in DOMAIN results \cup Range(ready) |->
                         IF k \in Range(ready) THEN "queued" ELSE results[k]]
        /\ remaining' = remaining
        /\ num_blocks_ran' = num_blocks_ran + Len(ready)
        /\ submitted' = submitted \cup Range(ready)
  /\ pc' = "pool_collect"
  /\ UNCHANGED <<block_dependencies, num_calls, gen, h5, reg, runNo, hist, order, blocks, instances, files, files0, data, args,
                 blocks_to_execute, requested, num_blocks_executed, nprocs,
                 to_delete, scan, num_exceptions, executed, raised, outcome, collected,
                 prompts, at_end_ran>>

\* lines 223-233: every remaining block that is ready goes to the pool
PoolSubmit ==
  /\ pc = "pool_submit"
  /\ LET ready == SelectSeq(remaining, LAMBDA k : ready_to_run(blocks, k))
     IN /\ results' = [k \in DOMAIN results \cup Range(ready) |->
                         IF k \in Range(ready) THEN "queued" ELSE results[k]]
        /\ remaining' = Without(remaining, ready)
        /\ num_blocks_ran' = num_blocks_ran + Len(ready)
        /\ submitted' = submitted \cup Range(ready)
  /\ pc' = "pool_collect"
  /\ UNCHANGED <<block_dependencies, num_calls, gen, h5, reg, runNo, hist, order, blocks, instances, files, files0, data, args,
                 blocks_to_execute, requested, num_blocks_executed, nprocs,
                 to_delete, scan, num_exceptions, executed, raised, outcome, collected,
                 prompts, at_end_ran>>

\* a collect step that gives up on the first failure: the loop is left with
\* blocks still remaining or in flight
PoolCollect_abort ==
  /\ pc = "pool_collect"
  /\ LET done == {k \in DOMAIN results : results[k] \in {"ok", "err"}}
         failed == {k \in done : results[k] = "err"}
         left == DOMAIN results \ done
     IN /\ num_exceptions' = num_exceptions + Cardinality(failed)
        /\ blocks' = [k \in DOMAIN blocks |->
                        IF k \in done THEN [blocks[k] EXCEPT !.complete = TRUE]
                        ELSE blocks[k]]
        /\ results' = [k \in left |-> results[k]]
        /\ collected' = collected \cup done
        /\ pc' = IF failed = {} /\ (remaining /= <<>> \/ left /= {})
                   THEN "pool_submit" ELSE "at_end"
  /\ UNCHANGED <<block_dependencies, num_calls, gen, h5, reg, runNo, hist, order, instances, files, files0, data, args,
                 blocks_to_execute, requested, num_blocks_executed, nprocs,
                 remaining, to_delete, scan, num_blocks_ran, submitted, executed,
                 raised, outcome, prompts, at_end_ran>>

\* a collect step that marks a block complete only when its call returned
PoolCollect_okonly ==
  /\ pc = "pool_collect"
  /\ LET done == {k \in DOMAIN results : results[k] \in {"ok", "err"}}
         failed == {k \in done : results[k] = "err"}
         left == DOMAIN results \ done
     IN /\ num_exceptions' = num_exceptions + Cardinality(failed)
        /\ blocks' = [k \in DOMAIN blocks |->
                        IF k \in done \ failed THEN [blocks[k] EXCEPT !.complete = TRUE]
                        ELSE blocks[k]]
        /\ results' = [k \in left |-> results[k]]
        /\ collected' = collected \cup done
        /\ pc' = IF remaining /= <<>> \/ left /= {} THEN "pool_submit" ELSE "at_end"
  /\ UNCHANGED <<block_dependencies, num_calls, gen, h5, reg, runNo, hist, order, instances, files, files0, data, args,
                 blocks_to_execute, requested, num_blocks_executed, nprocs,
                 remaining, to_delete, scan, num_blocks_ran, submitted, executed,
                 raised, outcome, prompts, at_end_ran>>

\* lines 235-250: every result that is ready is collected; the loop goes on
\* while remaining or results is not empty
PoolCollect ==
  /\ pc = "pool_collect"
  /\ LET done == {k \in DOMAIN results : results[k] \in {"ok", "err"}}
         failed == {k \in done : results[k] = "err"}
         left == DOMAIN results \ done
     IN /\ num_exceptions' = num_exceptions + Cardinality(failed)
        /\ blocks' = [k \in DOMAIN blocks |->
                        IF k \in done THEN [blocks[k] EXCEPT !.complete = TRUE]
                        ELSE blocks[k]]
        /\ results' = [k \in left |-> results[k]]
        /\ collected' = collected \cup done
        /\ pc' = IF remaining /= <<>> \/ left /= {} THEN "pool_submit" ELSE "at_end"
  /\ UNCHANGED <<block_dependencies, num_calls, gen, h5, reg, runNo, hist, order, instances, files, files0, data, args,
                 blocks_to_execute, requested, num_blocks_executed, nprocs,
                 remaining, to_delete, scan, num_blocks_ran, submitted, executed,
                 raised, outcome, prompts, at_end_ran>>

\* a free worker of the pool takes a queued call of execute_block
WorkerStart(k) ==
  /\ k \in DOMAIN results
  /\ results[k] = "queued"
  /\ Cardinality(Running) < nprocs
  /\ results' = [results EXCEPT ![k] = "running"]
  /\ files' = write_args(blocks, instances, files, k)
  /\ data' = write_args_data(blocks, instances, data, k)
  /\ executed' = executed \cup {k}
  /\ UNCHANGED <<block_dependencies, num_calls, gen, h5, reg, runNo, hist, order, blocks, instances, files0, args, pc,
                 blocks_to_execute, requested, num_blocks_executed, nprocs,
                 remaining, to_delete, scan, num_blocks_ran, num_exceptions,
                 submitted, raised, outcome, collected, prompts, at_end_ran>>

\* the block's function returns ret (or raises) and execute_block finishes
WorkerFinish(k, ret) ==
  /\ k \in DOMAIN results
  /\ results[k] = "running"
  /\ results' = [results EXCEPT ![k] = IF Raises(ret) THEN "err" ELSE "ok"]
  /\ files' = write_symbols(blocks, files, k, ret)
  /\ data' = write_symbols_data(blocks, data, k, ret)
  /\ raised' = IF Raises(ret) THEN raised \cup {k} ELSE raised
  /\ outcome' = [j \in DOMAIN outcome \cup {k} |->
                   IF j = k THEN (IF Raises(ret) THEN "raised" ELSE ret)
                   ELSE outcome[j]]
  /\ UNCHANGED <<block_dependencies, num_calls, gen, h5, reg, runNo, hist, order, blocks, instances, files0, args, pc,
                 blocks_to_execute, requested, num_blocks_executed, nprocs,
                 remaining, to_delete, scan, num_blocks_ran, num_exceptions,
                 submitted, executed, collected, prompts, at_end_ran>>

\* ------------------------------------------------------------------------
\* The dispatch loop in debug mode (lines 197-215)
\* ------------------------------------------------------------------------
\* one iteration of `for name in remaining`: a ready block is run in the
\* coordinator; an exception of execute_block_debug leaves run()
DebugStep(ret) ==
  /\ pc = "debug"
  /\ scan <= Len(remaining)
  /\ LET name == remaining[scan]
     IN IF ready_to_run(blocks, name)
          THEN /\ files' = write_symbols(blocks,
                             write_args(blocks, instances, files, name), name, ret)
               /\ data' = write_symbols_data(blocks,
                            write_args_data(blocks, instances, data, name), name, ret)
               /\ submitted' = submitted \cup {name}
               /\ executed' = executed \cup {name}
               /\ IF Raises(ret)
                    THEN /\ pc' = "error"
                         /\ raised' = raised \cup {name}
                         /\ outcome' = [j \in DOMAIN outcome \cup {name} |->
                                          IF j = name THEN "raised" ELSE outcome[j]]
                         /\ UNCHANGED <<blocks, to_delete, num_blocks_ran,
                                        collected, scan>>
                    ELSE /\ to_delete' = Append(to_delete, name)
                         /\ blocks' = [blocks EXCEPT ![name].complete = TRUE]
                         /\ num_blocks_ran' = num_blocks_ran + 1
                         /\ collected' = collected \cup {name}
                         /\ scan' = scan + 1
                         /\ outcome' = [j \in DOMAIN outcome \cup {name} |->
                                          IF j = name THEN ret ELSE outcome[j]]
                         /\ UNCHANGED <<pc, raised>>
          ELSE /\ ret = "dict"
               /\ scan' = scan + 1
               /\ UNCHANGED <<files, data, submitted, executed, pc, raised, outcome, blocks,
                              to_delete, num_blocks_ran, collected>>
  /\ UNCHANGED <<block_dependencies, num_calls, gen, h5, reg, runNo, hist, order, instances, files0, args,
                 blocks_to_execute, requested, num_blocks_executed, nprocs,
                 remaining, results, num_exceptions, prompts, at_end_ran>>

\* lines 212-215 and the test of `while remaining`
DebugEndPass ==
  /\ pc = "debug"
  /\ scan > Len(remaining)
  /\ remaining' = Without(remaining, to_delete)
  /\ to_delete' = <<>>
  /\ scan' = 1
  /\ pc' = IF Without(remaining, to_delete) = <<>> THEN "at_end" ELSE "debug"
  /\ UNCHANGED <<block_dependencies, num_calls, gen, h5, reg, runNo, hist, order, blocks, instances, files, files0, data, args,
                 blocks_to_execute, requested, num_blocks_executed, nprocs,
                 results, num_blocks_ran, num_exceptions, submitted, executed,
                 raised, outcome, collected, prompts, at_end_ran>>

\* ------------------------------------------------------------------------
\* End of run (lines 274-287), and the next invocation of the script
\* ------------------------------------------------------------------------
AtEnd ==
  /\ pc = "at_end"
  /\ at_end_ran' = IF reg.at_end_functions /= <<>> /\ ~args.no_at_end
                     THEN reg.at_end_functions ELSE <<>>
  /\ pc' = "done"
  /\ UNCHANGED <<block_dependencies, num_calls, gen, h5, reg, runNo, hist, order, blocks, instances, files, files0, data, args,
                 blocks_to_execute, requested, num_blocks_executed, nprocs,
                 remaining, to_delete, scan, results, num_blocks_ran,
                 num_exceptions, submitted, executed, raised, outcome, collected, prompts>>

\* the process has ended; the script is started again and registers the same
\* blocks, the files on disk are what the last invocation left
NewRun ==
  /\ pc \in {"done", "aborted", "error"}
  /\ runNo < MaxRuns
  /\ runNo' = runNo + 1
  /\ hist' = [default |-> args = DefaultArgs, pc |-> pc, raised |-> raised,
              executed |-> executed]
  /\ order' = reg.order
  /\ blocks' = reg.blocks
  /\ instances' = reg.instances
  /\ args' = DefaultArgs
  /\ pc' = "idle"
  /\ blocks_to_execute' = <<>>
  /\ requested' = <<>>
  /\ num_blocks_executed' = 0
  /\ nprocs' = 0
  /\ remaining' = <<>>
  /\ to_delete' = <<>>
  /\ scan' = 1
  /\ results' = EmptyMap
  /\ num_blocks_ran' = 0
  /\ num_exceptions' = 0
  /\ submitted' = {}
  /\ executed' = {}
  /\ raised' = {}
  /\ outcome' = EmptyMap
  /\ collected' = {}
  /\ prompts' = <<>>
  /\ at_end_ran' = <<>>
  /\ UNCHANGED <<block_dependencies, num_calls, gen, h5, reg, files, files0, data>>

\* ------------------------------------------------------------------------
\* Specifications
\* ------------------------------------------------------------------------
Pool ==
  \/ PoolSubmit
  \/ PoolCollect
  \/ \E k \in DOMAIN blocks : WorkerStart(k)
  \/ \E k \in DOMAIN blocks, ret \in Returns : WorkerFinish(k, ret)
  \/ AtEnd

Debug ==
  \/ \E ret \in Returns : DebugStep(ret)
  \/ DebugEndPass

\* one invocation with any command line
Next ==
  \/ pc = "idle" /\ \E a \in ArgsSet[reg], answer \in BOOLEAN : Run(a, answer)
  \/ Pool
  \/ Debug

Spec == Init /\ [][Next]_vars

\* consecutive invocations without flags
NextDefault ==
  \/ pc = "idle" /\ \E answer \in BOOLEAN : Run(DefaultArgs, answer)
  \/ Pool
  \/ NewRun

SpecDefault == Init /\ [][NextDefault]_vars

\* the command lines of a run in pool mode: --rerun with or without a name,
\* --no-deps
PoolArgs(r) ==
  {[DefaultArgs EXCEPT !.rerun = rr, !.force = rr.given, !.no_deps = nd] :
     rr \in NameOpts(r), nd \in BOOLEAN}

\* one invocation in pool mode
NextPool ==
  \/ pc = "idle" /\ \E a \in {b \in PoolArgs(reg) : Effective(b)} : Run(a, TRUE)
  \/ Pool

\* the coordinator goes on with its loop, the pool gives every queued call a
\* worker, and every call of execute_block returns or raises
SpecPool ==
  /\ Init /\ [][NextPool]_vars
  /\ WF_vars(PoolSubmit) /\ WF_vars(PoolCollect) /\ WF_vars(AtEnd)
  /\ WF_vars(\E k \in DOMAIN blocks : WorkerStart(k))
  /\ WF_vars(\E k \in DOMAIN blocks, ret \in Returns : WorkerFinish(k, ret))

\* ------------------------------------------------------------------------
\* The closure loops of resolve_dependencies_down and resolve_dependencies_up,
\* one round of the while loop per step
\* ------------------------------------------------------------------------
\* @cache(depends='B') def A; @cache(depends=A) def B: block.depends takes
\* the name of a function that is defined later
RegCycle ==
  [name |-> "cycle",
   order |-> <<"A", "B">>,
   blocks |-> [k \in {"A", "B"} |->
                 NewBlock(k, filepath("out", k), IF k = "A" THEN <<"B">> ELSE <<"A">>)],
   families |-> <<>>,
   instances |-> EmptyMap,
   instance_counts |-> EmptyMap,
   at_end_functions |-> <<>>,
   dirpath |-> "out"]

\* @cache(depends='A') def A; @cache(depends=A) def B
RegSelf ==
  [name |-> "self",
   order |-> <<"A", "B">>,
   blocks |-> [k \in {"A", "B"} |-> NewBlock(k, filepath("out", k), <<"A">>)],
   families |-> <<>>,
   instances |-> EmptyMap,
   instance_counts |-> EmptyMap,
   at_end_functions |-> <<>>,
   dirpath |-> "out"]

\* the command lines of the runs whose closures are followed: --rerun with or
\* without a name, --no-deps, always with --force
ResolveArgs(r) ==
  {[DefaultArgs EXCEPT !.rerun = rr, !.force = TRUE, !.no_deps = nd] :
     rr \in NameOpts(r), nd \in BOOLEAN}

InitResolve ==
  /\ reg \in Registries \cup {RegCycle, RegSelf}
  /\ runNo = 1
  /\ hist = NoHist
  /\ files \in SUBSET TargetsOf(reg)
  /\ files0 = files
  /\ data = [f \in files |-> Stored(Fixed(reg), f)]
  /\ Fresh(reg)
  /\ h5 = h5cache(1)
  /\ gen = NoGenerator
  /\ num_calls = 0
  /\ block_dependencies = <<>>

\* lines 610-613: the DOWN loop is entered with the selection as its frontier
DownFrontier(a, blks) ==
  IF a.rerun.given /\ Len(a.rerun.names) /= 0 /\ ~a.no_deps THEN blks ELSE <<>>

\* run() from its entry to line 612: the names are fixed, the blocks selected,
\* the edges normalized and the children linked
EnterDown(a) ==
  /\ pc = "idle"
  /\ \E fx \in {fix_block_names(reg.dirpath, order, blocks, instances,
                                reg.families, reg.instance_counts)} :
     \E sel \in {Select(fx.order, fx.blocks, fx.instances, files, a)} :
     \E exc \in {Exclude([order |-> fx.order, blocks |-> fx.blocks,
                          keys |-> sel.keys, error |-> ~sel.ok],
                         a.exclude, fx.instances, sel.alias)} :
     \E linked \in {LinkChildren([blocks |-> Normalize(exc.blocks, fx.instances),
                                  error |-> fx.error \/ exc.error], exc.order)} :
        /\ pc' = IF linked.error THEN "error" ELSE "down"
        /\ order' = exc.order
        /\ blocks' = linked.blocks
        /\ instances' = fx.instances
        /\ blocks_to_execute' = exc.keys
        /\ block_dependencies' = IF linked.error THEN <<>>
                                 ELSE DownFrontier(a, exc.keys)
  /\ args' = a
  /\ files0' = files
  /\ UNCHANGED <<num_calls, gen, h5, reg, runNo, hist, files, data, requested,
                 num_blocks_executed, nprocs, remaining, to_delete, scan, results,
                 num_blocks_ran, num_exceptions, submitted, executed, raised,
                 outcome, collected, prompts, at_end_ran>>

\* lines 614-621: one round of the DOWN loop
DownStep ==
  /\ pc = "down"
  /\ block_dependencies /= <<>>
  /\ \E new_blocks \in {NewDown(blocks, block_dependencies)} :
        /\ blocks_to_execute' = DictUpdate(blocks_to_execute, new_blocks)
        /\ block_dependencies' = new_blocks
  /\ UNCHANGED <<num_calls, gen, h5, reg, runNo, hist, order, blocks, instances, files,
                 files0, data, args, pc, requested, num_blocks_executed, nprocs,
                 remaining, to_delete, scan, results, num_blocks_ran, num_exceptions,
                 submitted, executed, raised, outcome, collected, prompts,
                 at_end_ran>>

\* the DOWN loop is left; lines 166-173 and 626 of run(): _overwrite, then
\* the UP loop is entered with blocks_to_execute as its frontier
DownEnd ==
  /\ pc = "down"
  /\ block_dependencies = <<>>
  /\ \E ow \in {overwrite(Filepaths(blocks, blocks_to_execute), files,
                          args.force, TRUE)} :
        /\ files' = ow.files
        /\ data' = [f \in ow.files |-> data[f]]
        /\ prompts' = ow.prompts
  /\ pc' = "up"
  /\ num_blocks_executed' = Len(blocks_to_execute)
  /\ requested' = blocks_to_execute
  /\ block_dependencies' = blocks_to_execute
  /\ UNCHANGED <<num_calls, gen, h5, reg, runNo, hist, order, blocks, instances,
                 files0, args, blocks_to_execute, nprocs, remaining, to_delete,
                 scan, results, num_blocks_ran, num_exceptions, submitted,
                 executed, raised, outcome, collected, at_end_ran>>

\* lines 627-637: one round of the UP loop
UpStep ==
  /\ pc = "up"
  /\ block_dependencies /= <<>>
  /\ \E r \in {UpRound([blocks |-> blocks, new_blocks |-> <<>>],
                       block_dependencies, files)} :
        /\ blocks' = r.blocks
        /\ blocks_to_execute' = DictUpdate(blocks_to_execute, r.new_blocks)
        /\ block_dependencies' = r.new_blocks
  /\ UNCHANGED <<num_calls, gen, h5, reg, runNo, hist, order, instances, files,
                 files0, data, args, pc, requested, num_blocks_executed, nprocs,
                 remaining, to_delete, scan, results, num_blocks_ran, num_exceptions,
                 submitted, executed, raised, outcome, collected, prompts,
                 at_end_ran>>

\* line 627: the frontier is empty, resolve_dependencies_up returns
UpEnd ==
  /\ pc = "up"
  /\ block_dependencies = <<>>
  /\ pc' = "resolved"
  /\ UNCHANGED <<block_dependencies, num_calls, gen, h5, reg, runNo, hist, order, blocks,
                 instances, files, files0, data, args, blocks_to_execute, requested,
                 num_blocks_executed, nprocs, remaining, to_delete, scan, results,
                 num_blocks_ran, num_exceptions, submitted, executed, raised,
                 outcome, collected, prompts, at_end_ran>>

NextResolve ==
  \/ pc = "idle" /\ \E a \in ResolveArgs(reg) : EnterDown(a)
  \/ DownStep
  \/ DownEnd
  \/ UpStep
  \/ UpEnd

\* the interpreter goes on with the loop it is in
SpecResolve == InitResolve /\ [][NextResolve]_vars /\ WF_vars(NextResolve)

\* ------------------------------------------------------------------------
\* Registration: scheduler.add with parameters, then fix_block_names
\* ------------------------------------------------------------------------
\* '-'.join(addons)
RECURSIVE Join(_)
Join(addons) ==
  IF addons = <<>> THEN ""
  ELSE IF Len(addons) = 1 THEN addons[1]
  ELSE addons[1] \o "-" \o Join(Tail(addons))

\* get_new_name(name, addons); truthy: addons is a filter object, which is
\* true in a boolean context even when it yields nothing
get_new_name(name, addons, truthy) ==
  IF name /= "" /\ ~(truthy \/ addons /= <<>>) THEN name
  ELSE IF name /= "" THEN name \o "-" \o Join(addons)
  ELSE Join(addons)

\* numpipe.parameter: arg has as many values as labels, here 1, 2, ...;
\* labels default to ''
parameter(labels, outer) ==
  [arg |-> [i \in 1..Len(labels) |-> i], labels |-> labels, outer |-> outer]

\* filter(lambda x: x, labels)
NonEmpty(labels) == SelectSeq(labels, LAMBDA l : l /= "")

\* zip(*[p.labels for p in params]): as long as the shortest parameter
ZipLabels(ps) ==
  LET CompMin[i \in 0..Len(ps)] ==
        IF i = 0 THEN -1
        ELSE IF CompMin[i-1] = -1 \/ Len(ps[i].labels) < CompMin[i-1]
          THEN Len(ps[i].labels) ELSE CompMin[i-1]
      n == IF ps = <<>> THEN 0 ELSE CompMin[Len(ps)]
  IN [i \in 1..n |-> [j \in 1..Len(ps) |-> ps[j].labels[i]]]

\* concatenation of the sequences of a sequence
RECURSIVE Flatten(_)
Flatten(ss) == IF ss = <<>> THEN <<>> ELSE Head(ss) \o Flatten(Tail(ss))

\* itertools.product(*[p.labels for p in params]): the last one varies fastest
RECURSIVE ProductLabels(_)
ProductLabels(ps) ==
  IF ps = <<>> THEN << <<>> >>
  ELSE LET rest == ProductLabels(Tail(ps))
       IN Flatten([i \in 1..Len(Head(ps).labels) |->
                     [j \in 1..Len(rest) |-> <<Head(ps).labels[i]>> \o rest[j]]])

\* lines 332-387: the instance names of the recursive add() calls that one
\* add(_func, _instance_name, **kwargs) call makes for its parameters
Expand(name, ps) ==
  LET kwarg_params_outer == SelectSeq(ps, LAMBDA q : q.outer)
      kwarg_params == SelectSeq(ps, LAMBDA q : ~q.outer)
      labels1 == ProductLabels(kwarg_params_outer)
      labels2 == ZipLabels(kwarg_params)
  IN IF kwarg_params_outer /= <<>> /\ kwarg_params /= <<>>
       THEN Flatten([i \in 1..Len(labels1) |->
                       [j \in 1..Len(labels2) |->
                          get_new_name(name, NonEmpty(labels1[i]) \o NonEmpty(labels2[j]),
                                       FALSE)]])
     ELSE IF kwarg_params_outer /= <<>>
       THEN [i \in 1..Len(labels1) |-> get_new_name(name, NonEmpty(labels1[i]), TRUE)]
     ELSE IF kwarg_params /= <<>>
       THEN [i \in 1..Len(labels2) |-> get_new_name(name, NonEmpty(labels2[i]), TRUE)]
     ELSE <<name>>

\* the parameters with their values in the place of their labels
Args(ps) == [k \in 1..Len(ps) |-> [labels |-> ps[k].arg]]

\* the keyword arguments that are not Parameters, as the script passes them
\* to add()
PlainKwargs == [tag |-> "v"]

\* an update that starts from an empty dict instead of copy(kwargs)
new_kwargs_empty(ps, vals1, vals2) ==
  [plain |-> EmptyMap,
   params |-> [k \in 1..Len(ps) |->
                 IF ps[k].outer
                   THEN vals1[Len(SelectSeq(SubSeq(ps, 1, k), LAMBDA q : q.outer))]
                   ELSE vals2[Len(SelectSeq(SubSeq(ps, 1, k), LAMBDA q : ~q.outer))]]]

\* new_kwargs = copy(kwargs); new_kwargs.update(replace): every Parameter is
\* replaced by its value in vals1 (outer) or vals2 (zipped), the other
\* keyword arguments stay
new_kwargs(ps, vals1, vals2) ==
  [plain |-> PlainKwargs,
   params |-> [k \in 1..Len(ps) |->
                 IF ps[k].outer
                   THEN vals1[Len(SelectSeq(SubSeq(ps, 1, k), LAMBDA q : q.outer))]
                   ELSE vals2[Len(SelectSeq(SubSeq(ps, 1, k), LAMBDA q : ~q.outer))]]]

\* lines 332-387: the keyword arguments of the recursive add() calls, in the
\* order of the calls
ExpandKwargs(ps) ==
  LET kwarg_params_outer == SelectSeq(ps, LAMBDA q : q.outer)
      kwarg_params == SelectSeq(ps, LAMBDA q : ~q.outer)
      args1 == ProductLabels(Args(kwarg_params_outer))
      args2 == ZipLabels(Args(kwarg_params))
  IN IF kwarg_params_outer /= <<>> /\ kwarg_params /= <<>>
       THEN Flatten([i \in 1..Len(args1) |->
                       [j \in 1..Len(args2) |-> new_kwargs(ps, args1[i], args2[j])]])
     ELSE IF kwarg_params_outer /= <<>>
       THEN [i \in 1..Len(args1) |-> new_kwargs(ps, args1[i], <<>>)]
     ELSE IF kwarg_params /= <<>>
       THEN [i \in 1..Len(args2) |-> new_kwargs(ps, <<>>, args2[i])]
     ELSE << new_kwargs(ps, <<>>, <<>>) >>

\* the recursive add() calls: instance name and keyword arguments of each
Paired(names, kwargs) ==
  [i \in 1..Len(names) |-> [name |-> names[i], kwargs |-> kwargs[i]]]

Calls(name, ps) == Paired(Expand(name, ps), ExpandKwargs(ps))

\* the count that instance_counts[func] holds for a name, -1 when it has none
CountOf(D, name) ==
  IF \E i \in 1..Len(D) : D[i].name = name
    THEN D[CHOOSE i \in 1..Len(D) : D[i].name = name].counts
    ELSE -1

\* lines 389-392: the counter of the instance name goes up, or starts at 0
Bump(D, name) ==
  IF CountOf(D, name) >= 0
    THEN [i \in 1..Len(D) |-> IF D[i].name = name
                                THEN [D[i] EXCEPT !.counts = @ + 1] ELSE D[i]]
    ELSE Append(D, [name |-> name, counts |-> 0])

\* the decimal digits of a counter
RECURSIVE str(_)
str(n) ==
  IF n < 10 THEN SubSeq("0123456789", n + 1, n + 1)
  ELSE str(n \div 10) \o SubSeq("0123456789", (n % 10) + 1, (n % 10) + 1)

\* lines 389-409: add() of one instance, without parameters, to the registry r
add_instance(r, func, name, kwargs) ==
  LET D == Bump(r.instance_counts[func], name)
      count == CountOf(D, name)
      block_name == IF name /= "" THEN func \o "-" \o name \o "-" \o str(count)
                                  ELSE func \o "-" \o str(count)
  IN [r EXCEPT
        !.instance_counts[func] = D,
        !.order = DictUpdate(@, <<block_name>>),
        !.blocks = [k \in DOMAIN @ \cup {block_name} |->
                      IF k = block_name
                        THEN [NewBlock(func, filepath(r.dirpath, block_name),
                                       IF func \in DOMAIN r.instance_dependency
                                         THEN r.instance_dependency[func]
                                         ELSE <<>>)
                                EXCEPT !.kwargs = kwargs]
                      ELSE @[k]],
        !.instances[func] = Append(@, block_name)]

RECURSIVE add_all(_, _, _)
add_all(r, func, calls) ==
  IF calls = <<>> THEN r
  ELSE add_all(add_instance(r, func, Head(calls).name, Head(calls).kwargs),
               func, Tail(calls))

\* an add() that registers only the first value of its parameters
add_first(r, func, name, ps) == add_all(r, func, <<Head(Calls(name, ps))>>)

\* scheduler.add(_func, _instance_name, **kwargs), ps being the parameters
\* among kwargs
add(r, func, name, ps) == add_all(r, func, Calls(name, ps))

\* a script that has declared the family f with @cache and nothing else
RegEmpty ==
  [name |-> "registering",
   order |-> <<>>,
   blocks |-> EmptyMap,
   families |-> <<"f">>,
   instances |-> [f \in {"f"} |-> <<>>],
   instance_counts |-> [f \in {"f"} |-> <<>>],
   instance_dependency |-> EmptyMap,
   at_end_functions |-> <<>>,
   dirpath |-> "out"]

\* A; the family f declared with @cache(depends=A) and no member yet; D
\* declared with @cache(depends=f)
RegDeps ==
  [name |-> "deps",
   order |-> <<"A", "D">>,
   blocks |-> [k \in {"A", "D"} |->
                 NewBlock(k, filepath("out", k), IF k = "D" THEN <<"f">> ELSE <<>>)],
   families |-> <<"f">>,
   instances |-> [f \in {"f"} |-> <<>>],
   instance_counts |-> [f \in {"f"} |-> <<>>],
   instance_dependency |-> [f \in {"f"} |-> <<"A">>],
   at_end_functions |-> <<>>,
   dirpath |-> "out"]

\* the instance names and parameter lists a script passes to add()
InstanceNames == {"", "0"}

Zip3 == <<parameter(<<"", "", "">>, FALSE), parameter(<<"a", "b", "c">>, FALSE)>>
Outer23 == <<parameter(<<"a", "b">>, TRUE), parameter(<<"", "", "">>, TRUE)>>
Mixed == <<parameter(<<"a", "b">>, TRUE), parameter(<<"", "">>, FALSE)>>

Unlabelled == <<parameter(<<"", "">>, FALSE)>>
ZipFirst == <<parameter(<<"x", "y">>, FALSE), parameter(<<"a", "b">>, TRUE)>>
Mixed32 == <<parameter(<<"a", "b", "c">>, TRUE), parameter(<<"x", "y">>, FALSE),
             parameter(<<"p", "q">>, FALSE)>>
Mixed222 == <<parameter(<<"a", "b">>, TRUE), parameter(<<"x", "y">>, FALSE),
              parameter(<<"c", "d">>, TRUE)>>

ParamLists == {<<>>, Zip3, Outer23, Mixed, Unlabelled, ZipFirst, Mixed32, Mixed222}

\* the script of registry r before it calls run()
Registering(r) ==
  /\ reg = r
  /\ runNo = 1
  /\ hist = NoHist
  /\ files = {}
  /\ files0 = {}
  /\ data = EmptyMap
  /\ order = <<>>
  /\ blocks = EmptyMap
  /\ instances = EmptyMap
  /\ args = DefaultArgs
  /\ pc = "registering"
  /\ blocks_to_execute = <<>>
  /\ requested = <<>>
  /\ num_blocks_executed = 0
  /\ nprocs = 0
  /\ remaining = <<>>
  /\ to_delete = <<>>
  /\ scan = 1
  /\ results = EmptyMap
  /\ num_blocks_ran = 0
  /\ num_exceptions = 0
  /\ submitted = {}
  /\ executed = {}
  /\ raised = {}
  /\ outcome = EmptyMap
  /\ collected = {}
  /\ prompts = <<>>
  /\ at_end_ran = <<>>
  /\ h5 = h5cache(1)
  /\ gen = NoGenerator
  /\ num_calls = 0
  /\ block_dependencies = <<>>

InitAdd == Registering(RegEmpty)

\* the script calls job.add(func, name, **kwargs)
Add(func, name, ps) ==
  /\ pc = "registering"
  /\ num_calls < MaxCalls
  /\ \E r \in {add(reg, func, name, ps)} :
        /\ Len(r.order) <= MaxBlocks
        /\ reg' = r
  /\ num_calls' = num_calls + 1
  /\ UNCHANGED <<block_dependencies, gen, h5, runNo, hist, order, blocks, instances, files, files0,
                 data, args, pc,
                 blocks_to_execute, requested, num_blocks_executed, nprocs,
                 remaining, to_delete, scan, results, num_blocks_ran,
                 num_exceptions, submitted, executed, raised, outcome, collected, prompts,
                 at_end_ran>>

\* the script calls job.run(), which starts with fix_block_names()
FixNames ==
  /\ pc = "registering"
  /\ \E fx \in {Fixed(reg)} :
        /\ order' = fx.order
        /\ blocks' = fx.blocks
        /\ instances' = fx.instances
        /\ pc' = IF fx.error THEN "error" ELSE "fixed"
  /\ UNCHANGED <<block_dependencies, num_calls, gen, h5, reg, runNo, hist, files, files0, data, args,
                 blocks_to_execute, requested, num_blocks_executed, nprocs,
                 remaining, to_delete, scan, results, num_blocks_ran,
                 num_exceptions, submitted, executed, raised, outcome, collected, prompts,
                 at_end_ran>>

NextAdd ==
  \/ \E name \in InstanceNames, ps \in ParamLists : Add("f", name, ps)
  \/ FixNames

SpecAdd == InitAdd /\ [][NextAdd]_vars

\* a script that streams records into a cache
InitCache ==
  /\ reg = RegEmpty
  /\ runNo = 1
  /\ hist = NoHist
  /\ files = {}
  /\ files0 = {}
  /\ data = EmptyMap
  /\ Fresh(reg)
  /\ h5 \in {h5cache(records) : records \in 1..MaxCapacity}
  /\ gen = NoGenerator
  /\ num_calls = 0
  /\ block_dependencies = <<>>

\* the generator yields a record for the symbol name
CacheAdd(name, record) ==
  /\ ~h5.error
  /\ TotalAdded(h5, h5.names) < MaxAdded
  /\ h5' = [cache_add(h5, name, record) EXCEPT
              !.added = Put(@, name, (IF name \in DOMAIN @ THEN @[name] ELSE <<>>)
                                       \o <<record>>),
              !.last = "add"]
  /\ UNCHANGED <<block_dependencies, num_calls, reg, runNo, hist, order, blocks, instances, files, files0, data,
                 args, pc, blocks_to_execute, requested, num_blocks_executed,
                 nprocs, remaining, to_delete, scan, results, num_blocks_ran,
                 num_exceptions, submitted, executed, raised, outcome, collected,
                 prompts, at_end_ran, gen>>

\* the caller calls flush()
CacheFlush ==
  /\ ~h5.error
  /\ h5.explicit_flushes < 2
  /\ h5' = [flush(h5) EXCEPT !.explicit_flushes = @ + 1, !.last = "flush"]
  /\ UNCHANGED <<block_dependencies, num_calls, reg, runNo, hist, order, blocks, instances, files, files0, data,
                 args, pc, blocks_to_execute, requested, num_blocks_executed,
                 nprocs, remaining, to_delete, scan, results, num_blocks_ran,
                 num_exceptions, submitted, executed, raised, outcome, collected,
                 prompts, at_end_ran, gen>>

\* more than cache_time seconds have passed since time_start
CacheTimePasses ==
  /\ ~h5.error
  /\ ~h5.elapsed
  /\ h5' = [h5 EXCEPT !.elapsed = TRUE]
  /\ UNCHANGED <<block_dependencies, num_calls, reg, runNo, hist, order, blocks, instances, files, files0, data,
                 args, pc, blocks_to_execute, requested, num_blocks_executed,
                 nprocs, remaining, to_delete, scan, results, num_blocks_ran,
                 num_exceptions, submitted, executed, raised, outcome, collected,
                 prompts, at_end_ran, gen>>

NextCache ==
  \/ \E name \in {"x", "y"}, record \in {1, 2} : CacheAdd(name, record)
  \/ CacheFlush
  \/ CacheTimePasses

SpecCache == InitCache /\ [][NextCache]_vars

\* the Target of the generator block
GenTarget == filepath("out", "g")

\* h5py.File(f, 'r+'): the file is not created when it does not exist
open_existing(fs, f) == fs

\* h5py.File(f, 'a') in h5cache.add and h5cache.flush: the file is created
\* when it does not exist
open_append(fs, f) == fs \cup {f}

\* the Target file after the cache h has worked on it
GenData(dt, h) ==
  Put(dt, GenTarget,
      [(IF GenTarget \in DOMAIN dt THEN dt[GenTarget] ELSE NewFile)
         EXCEPT !.symbols = h.dset])

\* execute_block runs a generator block (lines 115-147); lines 108-117:
\* write_args has created the Target of an instance member before func()
\* returns the generator
InitGen ==
  /\ reg = RegEmpty
  /\ runNo = 1
  /\ hist = NoHist
  /\ \E instance \in BOOLEAN :
       /\ gen = [NoGenerator EXCEPT !.pc = "iterating", !.instance = instance]
       /\ files = IF instance THEN {GenTarget} ELSE {}
       /\ data = IF instance
                   THEN Put(EmptyMap, GenTarget, [NewFile EXCEPT !.args = TRUE])
                   ELSE EmptyMap
  /\ files0 = {}
  /\ Fresh(reg)
  /\ h5 \in {h5cache(records) : records \in 1..MaxCapacity}
  /\ num_calls = 0
  /\ block_dependencies = <<>>

\* the mappings a generator yields: the symbols in the mapping's order
Mappings == {<<"x">>, <<"y">>, <<"x", "y">>}

\* the generator yields a mapping that gives record to every symbol of names
GenYield(names, record) ==
  /\ gen.pc = "iterating"
  /\ TotalYielded(gen.yielded) + Len(names) <= MaxAdded
  /\ \E h \in {add_symbols(h5, names, record)} :
       IF h.error
         THEN /\ h5' = except_clause(h)
              /\ gen' = [gen EXCEPT !.pc = "failed", !.error = propagated(h),
                                    !.yielded = Yielded(@, names, record)]
         ELSE /\ h5' = h
              /\ gen' = [gen EXCEPT !.yielded = Yielded(@, names, record)]
  /\ files' = open_append(files, GenTarget)
  /\ data' = GenData(data, h5')
  /\ UNCHANGED <<block_dependencies, num_calls, reg, runNo, hist, order, blocks, instances, files0,
                 args, pc, blocks_to_execute, requested, num_blocks_executed,
                 nprocs, remaining, to_delete, scan, results, num_blocks_ran,
                 num_exceptions, submitted, executed, raised, outcome, collected,
                 prompts, at_end_ran>>

\* the generator raises
GenRaise ==
  /\ gen.pc = "iterating"
  /\ h5' = except_clause(h5)
  /\ gen' = [gen EXCEPT !.pc = "failed", !.error = propagated(h5), !.raised = TRUE]
  /\ files' = open_append(files, GenTarget)
  /\ data' = GenData(data, h5')
  /\ UNCHANGED <<block_dependencies, num_calls, reg, runNo, hist, order, blocks, instances, files0,
                 args, pc, blocks_to_execute, requested, num_blocks_executed,
                 nprocs, remaining, to_delete, scan, results, num_blocks_ran,
                 num_exceptions, submitted, executed, raised, outcome, collected,
                 prompts, at_end_ran>>

\* the generator is exhausted: line 131 flushes the cache
GenReturn ==
  /\ gen.pc = "iterating"
  /\ \E h \in {flush(h5)} :
       IF h.error
         THEN /\ h5' = except_clause(h)
              /\ gen' = [gen EXCEPT !.pc = "failed", !.error = propagated(h)]
         ELSE /\ h5' = h
              /\ gen' = [gen EXCEPT !.pc = "returned"]
  /\ files' = open_append(files, GenTarget)
  /\ data' = GenData(data, h5')
  /\ UNCHANGED <<block_dependencies, num_calls, reg, runNo, hist, order, blocks, instances, files0,
                 args, pc, blocks_to_execute, requested, num_blocks_executed,
                 nprocs, remaining, to_delete, scan, results, num_blocks_ran,
                 num_exceptions, submitted, executed, raised, outcome, collected,
                 prompts, at_end_ran>>

\* more than cache_time seconds pass while the generator computes
GenTimePasses == gen.pc = "iterating" /\ CacheTimePasses

NextGen ==
  \/ \E names \in Mappings, record \in {1, 2} : GenYield(names, record)
  \/ GenRaise
  \/ GenReturn
  \/ GenTimePasses

SpecGen == InitGen /\ [][NextGen]_vars

\* as RegPair, in a script that calls scheduler(dirpath='out/')
RegSlash ==
  [RegPair EXCEPT !.name = "slash", !.dirpath = "out/",
                  !.blocks = [k \in DOMAIN RegPair.blocks |->
                                [RegPair.blocks[k] EXCEPT
                                   !.filepath = filepath("out/", k)]]]

\* files that earlier versions of the script and other programs left in the
\* output directory
OtherFiles == {"out/job-old.h5", "out/job2-A.h5", "out/notes.txt"}

CleanArgs == {[DefaultArgs EXCEPT !.action = "clean", !.force = f] : f \in BOOLEAN}

InitClean ==
  /\ reg \in Registries \cup {RegSlash}
  /\ runNo = 1
  /\ hist = NoHist
  /\ files \in SUBSET (TargetsOf(reg) \cup OtherFiles)
  /\ files0 = files
  /\ data = [f \in files |-> IF f \in TargetsOf(reg) THEN Stored(Fixed(reg), f)
                                                     ELSE NewFile]
  /\ Fresh(reg)
  /\ h5 = h5cache(1)
  /\ gen = NoGenerator
  /\ num_calls = 0
  /\ block_dependencies = <<>>

\* the script is run with the clean subcommand
NextClean ==
  pc = "idle" /\ \E a \in CleanArgs, answer \in BOOLEAN : Run(a, answer)

SpecClean == InitClean /\ [][NextClean]_vars

\* as RegPair, in a script whose file is my-job.py: self.filename (line 63) is
\* 'my-job'
RegHyphen ==
  [RegPair EXCEPT !.name = "hyphen",
                  !.blocks = [k \in DOMAIN RegPair.blocks |->
                                [RegPair.blocks[k] EXCEPT
                                   !.filepath = "out/my-job-" \o k \o ".h5"]]]

\* the command lines that name one block by the file name of its Target
FileNameArgs(r) ==
  UNION {{[DefaultArgs EXCEPT !.rerun = [given |-> TRUE, names |-> <<n>>],
                              !.force = TRUE],
          [DefaultArgs EXCEPT !.delete = [given |-> TRUE, names |-> <<n>>],
                              !.force = TRUE],
          [DefaultArgs EXCEPT !.exclude = <<n>>]} :
         n \in {Name(f) : f \in TargetsOf(r)}}

InitLabels ==
  /\ reg \in Registries \cup {RegHyphen}
  /\ runNo = 1
  /\ hist = NoHist
  /\ files \in SUBSET TargetsOf(reg)
  /\ files0 = files
  /\ data = [f \in files |-> Stored(Fixed(reg), f)]
  /\ Fresh(reg)
  /\ h5 = h5cache(1)
  /\ gen = NoGenerator
  /\ num_calls = 0
  /\ block_dependencies = <<>>

\* the script is run with a file name given to --rerun, --delete or --exclude
NextLabels ==
  pc = "idle" /\ \E a \in FileNameArgs(reg) : Run(a, TRUE)

SpecLabels == InitLabels /\ [][NextLabels]_vars

\* block.depends(dependencies) with a list of names
depends(b, dependencies) == [b EXCEPT !.dependencies = @ \o dependencies]

\* a depends() that extends a list shared by the family: its template and
\* the lists of all its members
member_depends_shared(r, k, dependencies) ==
  LET func == r.blocks[k].deferred_function
  IN [r EXCEPT
        !.blocks = [j \in DOMAIN @ |->
                      IF j \in Range(r.instances[func])
                        THEN depends(@[j], dependencies) ELSE @[j]],
        !.instance_dependency[func] = @ \o dependencies]

\* job.add(...).depends(dependencies): depends() of the block k that add()
\* returned
member_depends(r, k, dependencies) ==
  [r EXCEPT !.blocks[k] = depends(@, dependencies)]

InitDeps == Registering(RegDeps)

\* the script calls depends(d) on a member that add() returned
Depends(k, d) ==
  /\ pc = "registering"
  /\ k \in Range(reg.instances["f"])
  /\ Len(reg.blocks[k].dependencies) < MaxDeps
  /\ reg' = member_depends(reg, k, <<d>>)
  /\ UNCHANGED <<block_dependencies, num_calls, gen, h5, runNo, hist, order, blocks, instances, files,
                 files0, data, args, pc,
                 blocks_to_execute, requested, num_blocks_executed, nprocs,
                 remaining, to_delete, scan, results, num_blocks_ran,
                 num_exceptions, submitted, executed, raised, outcome, collected, prompts,
                 at_end_ran>>

\* run() is called again on the same scheduler: fix_block_names() once more
FixAgain ==
  /\ pc = "fixed"
  /\ \E fx \in {fix_block_names(reg.dirpath, order, blocks, instances, reg.families,
                                 reg.instance_counts)} :
        /\ order' = fx.order
        /\ blocks' = fx.blocks
        /\ instances' = fx.instances
        /\ pc' = IF fx.error THEN "error" ELSE "fixed_twice"
  /\ UNCHANGED <<block_dependencies, num_calls, gen, h5, reg, runNo, hist, files, files0, data, args,
                 blocks_to_execute, requested, num_blocks_executed, nprocs,
                 remaining, to_delete, scan, results, num_blocks_ran,
                 num_exceptions, submitted, executed, raised, outcome, collected, prompts,
                 at_end_ran>>

\* run() goes on to resolve_dependencies_down: the family names among the
\* dependencies are replaced and the children lists are filled
ResolveDown ==
  /\ pc = "fixed"
  /\ \E down \in {resolve_dependencies_down(order, blocks, instances, <<>>,
                                             DefaultArgs)} :
        /\ blocks' = down.blocks
        /\ pc' = IF down.error THEN "error" ELSE "normalized"
  /\ UNCHANGED <<block_dependencies, num_calls, gen, h5, reg, runNo, hist, order, instances, files, files0,
                 data, args,
                 blocks_to_execute, requested, num_blocks_executed, nprocs,
                 remaining, to_delete, scan, results, num_blocks_ran,
                 num_exceptions, submitted, executed, raised, outcome, collected, prompts,
                 at_end_ran>>

NextDeps ==
  \/ \E name \in InstanceNames : Add("f", name, <<>>)
  \/ \E k \in DOMAIN reg.blocks, d \in {"A", "D"} : Depends(k, d)
  \/ FixNames
  \/ FixAgain
  \/ ResolveDown

SpecDeps == InitDeps /\ [][NextDeps]_vars

TypeOK ==
  /\ pc \in {"registering", "fixed", "idle", "pool_submit", "pool_collect",
             "debug", "at_end", "done", "aborted", "error"}
  /\ Range(blocks_to_execute) \subseteq DOMAIN blocks
  /\ files \subseteq TargetsOf(reg)

\* ------------------------------------------------------------------------
\* Properties
\* ------------------------------------------------------------------------
\* the blocks that k depends on, directly or through other blocks
RECURSIVE TransitiveDeps(_, _)
TransitiveDeps(bs, k) ==
  LET direct == Range(bs[k].dependencies) \cap DOMAIN bs
  IN direct \cup UNION {TransitiveDeps(bs, d) : d \in direct}

\* the blocks that depend on k, directly or through other blocks
Dependents(bs, k) == {b \in DOMAIN bs : k \in TransitiveDeps(bs, b)}

\* this invocation selects and resolves an execution set
Selecting ==
  /\ args.action \in {"run", "slurm"}
  /\ ~args.delete.given
  /\ ~args.at_end

\* the keys that the names of a list stand for
LabelsOf(names) == Range(AllLabels(blocks, instances, names).labels)

\* C1: a block is submitted only when every name in its dependency list is a
\* registered block whose complete flag is true, and a dependency that is in
\* the execution set has had its result collected by then
C1_ReadyBeforeSubmit ==
  \A b \in submitted : \A i \in 1..Len(blocks[b].dependencies) :
     LET D == blocks[b].dependencies[i]
     IN /\ D \in DOMAIN blocks
        /\ blocks[D].complete
        /\ D \in Range(blocks_to_execute) => D \in collected

\* a block was submitted to the pool after a dependency of the same execution
\* set was collected
C1_Witness ==
  /\ ~args.debug
  /\ \E b \in submitted : \E D \in Range(blocks[b].dependencies) :
       D \in Range(blocks_to_execute) /\ D \in collected

\* C2: a block whose function raised is not marked complete, neither when its
\* result has been collected nor at the end of the run
C2_FailedNotComplete ==
  \A k \in raised : (k \in collected \/ pc = "done") => ~blocks[k].complete

\* C3: once a block's function has raised, no block of the execution set that
\* depends on it is dispatched: a dependent that has not been started stays
\* in remaining and is not marked complete
C3_DependentsBlocked ==
  [][\A k \in raised :
       \A b \in (Dependents(blocks, k) \cap Range(blocks_to_execute)) \ submitted :
          /\ b \notin submitted'
          /\ b \in Range(remaining')
          /\ ~blocks'[b].complete]_vars

\* C4: in pool mode, when the loop has drained, every block of the execution
\* set that does not depend on a failed block has been submitted and
\* collected, and the failure counter counts the blocks that raised
C4_SiblingsNotCancelled ==
  (~args.debug /\ pc \in {"at_end", "done"} /\ num_blocks_executed > 0
     /\ args.action = "run") =>
    /\ \A b \in Range(blocks_to_execute) :
         (TransitiveDeps(blocks, b) \cap raised = {}) =>
           (b \in submitted /\ b \in collected)
    /\ num_exceptions = Cardinality(raised)

\* a pool run ended in which one block raised and another one, which does not
\* depend on it, ran and was collected
C4_Witness ==
  /\ ~args.debug
  /\ pc = "done"
  /\ \E k \in raised : \E b \in collected \ raised :
       k \notin TransitiveDeps(blocks, b)

\* C5: without --rerun, --exclude and --delete the execution set is exactly
\* the set of registered blocks whose Target did not exist when run() began
C5_DefaultSetIsMissing ==
  (pc /= "idle" /\ Selecting /\ ~args.rerun.given /\ args.exclude = <<>>) =>
    Range(blocks_to_execute) = {k \in DOMAIN blocks : blocks[k].filepath \notin files0}

\* a default run ended that found some Targets on disk and some missing
C5_Witness ==
  /\ pc = "done" /\ Selecting /\ ~args.rerun.given /\ args.exclude = <<>>
  /\ files0 /= {}
  /\ blocks_to_execute /= <<>>

RerunCOnChain ==
  /\ reg.name = "chain"
  /\ args.rerun = [given |-> TRUE, names |-> <<"C">>]
  /\ args.exclude = <<>>
  /\ {filepath(reg.dirpath, "A"), filepath(reg.dirpath, "B")} \subseteq files0

\* C8 as stated: A and B are both marked complete, neither is executed, and C
\* is the only block executed
C8_UpwardMarksBoth ==
  (RerunCOnChain /\ pc = "done") =>
    /\ blocks["A"].complete /\ blocks["B"].complete
    /\ executed = {"C"}

\* C8 amended: B, the dependency of C, is marked complete and A's flag is
\* left false; neither is executed, and C is the only block executed
C8_UpwardMarksDirect ==
  (RerunCOnChain /\ pc \notin {"idle", "aborted", "error"}) =>
    /\ blocks["B"].complete /\ ~blocks["A"].complete
    /\ blocks_to_execute = <<"C">>
    /\ executed \subseteq {"C"}
    /\ pc = "done" => executed = {"C"}

\* the run of --rerun C has ended
C8_Witness == RerunCOnChain /\ pc = "done" /\ executed = {"C"}

\* a run is about to dispatch: resolution is over and nothing is submitted
BeforeDispatch ==
  \/ pc \in {"pool_submit", "debug"} /\ submitted = {}
  \/ pc = "done" /\ args.action = "slurm"

\* C9: before dispatch, every dependency D of a block of the execution set is
\* in the set with its Target missing, or has its Target on disk and is complete
C9_ClosedUpward ==
  BeforeDispatch =>
    \A X \in Range(blocks_to_execute) : \A D \in Range(blocks[X].dependencies) :
       \/ D \in Range(blocks_to_execute) /\ ~exists(blocks, files, D)
       \/ exists(blocks, files, D) /\ blocks[D].complete

\* before dispatch, one dependency was pulled into the set and another one is
\* satisfied from disk
C9_Witness ==
  /\ BeforeDispatch
  /\ \E X \in Range(blocks_to_execute) : \E D \in Range(blocks[X].dependencies) :
       D \in Range(blocks_to_execute) /\ D \notin Range(requested)
  /\ \E X \in Range(blocks_to_execute) : \E D \in Range(blocks[X].dependencies) :
       D \notin Range(blocks_to_execute) /\ blocks[D].complete

\* C10: when the overwrite confirmation is declined, run() returns without an
\* error, no block is executed and the files on disk are what they were
C10_DeclineNoEffect ==
  pc = "aborted" =>
    /\ files = files0
    /\ submitted = {} /\ executed = {}
    /\ at_end_ran = <<>>

\* the user was shown existing Targets and declined
C10_Witness == pc = "aborted" /\ prompts /= <<>> /\ files0 /= {}

\* C11: once the confirmation is approved or bypassed with --force, a Target
\* of the requested set that is on disk has been written by this run (the one
\* found at the start was removed before anything was submitted); with
\* --force, or when no requested block had a Target, nobody is asked
C11_RemovedBeforeSubmit ==
  (Selecting /\ pc \notin {"idle", "error"}) =>
    /\ pc /= "aborted" =>
         \A k \in Range(requested) : exists(blocks, files, k) => k \in executed
    /\ args.force => prompts = <<>>
    /\ (\A k \in Range(requested) : blocks[k].filepath \notin files0)
         => prompts = <<>>

\* the user approved the removal of existing Targets and a block has been
\* submitted since
C11_Witness ==
  /\ Selecting /\ prompts /= <<>> /\ pc = "pool_collect"
  /\ submitted /= {} /\ executed = {}
  /\ \E k \in Range(requested) : blocks[k].filepath \in files0

\* C12: --delete without names, confirmed (or forced), removes the Target of
\* every registered block, leaves the registry as fix_block_names made it
\* (blocks, families, dependency lists, complete flags) and runs no function
C12_DeleteAllKeepsRegistry ==
  [][\A a \in ArgsSet[reg] :
       (a.delete.given /\ a.delete.names = <<>> /\ Run(a, TRUE)) =>
          /\ pc' = "done"
          /\ files' \cap TargetsOf(reg) = {}
          /\ order' = Fixed(reg).order
          /\ blocks' = Fixed(reg).blocks
          /\ instances' = Fixed(reg).instances
          /\ blocks_to_execute' = <<>>
          /\ submitted' = {} /\ executed' = {} /\ at_end_ran' = <<>>]_vars

\* the user confirmed --delete on a directory where every block had a Target
C12_Witness ==
  /\ args.delete = [given |-> TRUE, names |-> <<>>]
  /\ ~args.force
  /\ pc = "done"
  /\ prompts /= <<>>
  /\ files0 = TargetsOf(reg)
  /\ files = {}

\* a name that get_labels resolves to nothing in the registry run() works on
UnknownName(n) == ~get_labels(Fixed(reg).blocks, Fixed(reg).instances, n).ok

\* C13: a name given to --rerun, --delete or --exclude that matches nothing
\* makes run() raise, with no Target removed and no block executed
C13_UnknownNameRaises ==
  (/\ pc /= "idle"
   /\ \E n \in Range(args.rerun.names) \cup Range(args.delete.names)
                \cup Range(args.exclude) : UnknownName(n))
    => (pc = "error" /\ files = files0 /\ executed = {})

\* the keys that the names given to --exclude stand for
ExcludedLabels ==
  Range(AllLabels(Fixed(reg).blocks, Fixed(reg).instances, args.exclude).labels)

\* C14: a block named by --exclude, directly or through its family, is not
\* in the execution set that is dispatched and its function is not executed
C14_ExcludedNotRun ==
  (Selecting /\ pc \notin {"idle", "error"}) =>
    \A k \in ExcludedLabels :
       k \notin Range(blocks_to_execute) /\ k \notin executed

\* C15: whatever --rerun, --exclude and --delete say, after selection and
\* resolution the registry holds the blocks it held after fix_block_names
C15_RegistryKept ==
  pc /= "idle" =>
    /\ DOMAIN blocks = DOMAIN Fixed(reg).blocks
    /\ Range(order) = DOMAIN Fixed(reg).blocks

\* the keys of a list are pairwise distinct
NoDuplicates(s) == \A i, j \in 1..Len(s) : s[i] = s[j] => i = j

\* C16: after the add() calls and the fix-up pass the registered names are
\* pairwise distinct and every block that add() created is still registered
C16_FixupKeepsBlocks ==
  pc = "fixed" =>
    /\ NoDuplicates(order)
    /\ Range(order) = DOMAIN blocks
    /\ Cardinality(DOMAIN blocks) = Cardinality(DOMAIN reg.blocks)
    /\ NoDuplicates(instances["f"])

\* C17: an add() call whose parameters are all zipped and of equal length n
\* creates n blocks; one whose parameters are all outer creates the product
\* of their lengths
C17_ExpansionCardinality ==
  [][\A name \in InstanceNames :
       /\ Add("f", name, Zip3) =>
            Cardinality(DOMAIN reg'.blocks) = Cardinality(DOMAIN reg.blocks) + 3
       /\ Add("f", name, Outer23) =>
            Cardinality(DOMAIN reg'.blocks) = Cardinality(DOMAIN reg.blocks) + 6]_vars

\* a registry made by one zipped add() of length 3 and nothing else, and
\* then by an outer add() of lengths 2 and 3
C17_Witness ==
  /\ pc = "registering"
  /\ reg = add(add(RegEmpty, "f", "", Zip3), "f", "0", Outer23)
  /\ Len(reg.order) = 9

\* the Target file of block k exists and holds the value v for the symbol n
Holds(k, n, v) ==
  /\ exists(blocks, files, k)
  /\ n \in DOMAIN data[blocks[k].filepath].symbols
  /\ data[blocks[k].filepath].symbols[n] = v

\* the function of block k was called and returned its dict
ReturnedDict(k) == k \in DOMAIN outcome /\ outcome[k] = "dict"

\* A without dependencies and B depending on A, run without flags in an
\* empty directory
PairOnEmptyDirectory ==
  reg.name = "pair" /\ args = DefaultArgs /\ files0 = {} /\ pc /= "idle"

\* C18: in that run both functions are executed, A's Target exists (and
\* holds x = 2) when B starts, and at the end the Targets hold x = 2 and x = 3
C18_PairRunsInOrder ==
  PairOnEmptyDirectory =>
    /\ blocks_to_execute = <<"A", "B">>
    /\ ("B" \in executed /\ ReturnedDict("A")) => Holds("A", "x", 2)
    /\ (pc = "done" /\ ReturnedDict("A")) => "B" \in executed
    /\ (pc = "done" /\ ReturnedDict("A") /\ ReturnedDict("B")) =>
          /\ executed = {"A", "B"}
          /\ files = {blocks["A"].filepath, blocks["B"].filepath}
          /\ Holds("A", "x", 2) /\ Holds("B", "x", 3)

\* the run of the pair has ended and both functions returned their dicts
C18_Witness ==
  /\ PairOnEmptyDirectory /\ pc = "done"
  /\ ReturnedDict("A") /\ ReturnedDict("B")

\* C19: a block whose function raised, or returned something that is neither
\* a dict nor None, has no Target afterwards, whether it is a plain block or
\* a member of an instance family, and the next run without flags selects it
C19_FailedLeavesNoTarget ==
  /\ \A k \in raised : ~exists(blocks, files, k)
  /\ (runNo > 1 /\ hist.default /\ hist.pc = "done" /\ pc /= "idle") =>
       hist.raised \subseteq Range(blocks_to_execute)

\* C20: N records added for one symbol and then flushed: no call raises, the
\* dataset on disk holds the N records in the order added, and when N
\* exceeds the capacity a flush happened before the final one
C20_AllRecordsOnDisk ==
  (/\ Len(h5.names) = 1
   /\ h5.explicit_flushes <= 1
   /\ h5.explicit_flushes = 1 => h5.last = "flush") =>
    /\ ~h5.error
    /\ h5.explicit_flushes = 1 => h5.dset[h5.names[1]] = h5.added[h5.names[1]]
    /\ Len(h5.added[h5.names[1]]) > h5.records => h5.auto_flushes >= 1

\* C21: flush() on a symbol with no buffered records raises no error and
\* leaves the symbol's records on disk as they were, however many they are
C21_FlushEmptyIsNoop ==
  [][CacheFlush =>
       \A name \in DOMAIN h5.cache :
          h5.cache[name] = <<>> =>
            /\ ~h5'.error
            /\ h5'.dset[name] = h5.dset[name]]_vars

\* C22: when a generator block raises after yielding records, every record
\* it yielded is in the block's Target, and the exception that leaves
\* execute_block names the block
C22_YieldedRecordsPersisted ==
  (gen.pc = "failed" /\ gen.raised) =>
    /\ \A name \in DOMAIN gen.yielded :
          name \in DOMAIN h5.dset /\ h5.dset[name] = gen.yielded[name]
    /\ gen.error = "named"

\* the block k is a member of an instance family
IsInstance(k) ==
  /\ blocks[k].deferred_function \in DOMAIN instances
  /\ k \in Range(instances[blocks[k].deferred_function])

\* the function of the block k returned None in this run
ReturnedNone(k) == k \in DOMAIN outcome /\ outcome[k] = "None"

ConfiguredProcesses == IF args.processes.given THEN args.processes.n ELSE CpuCount

\* C24: the width of the worker pool is the smaller of the configured
\* process count and the number of blocks dispatched (the execution set
\* after both closures), and never exceeds that number
C24_PoolWidth ==
  pc \in {"pool_submit", "pool_collect"} =>
    /\ nprocs = Min(ConfiguredProcesses, Len(blocks_to_execute))
    /\ nprocs <= Len(blocks_to_execute)

\* the command line takes run() to the dispatch loop and past it
ReachesEnd == args.action = "run" /\ ~args.delete.given

Stale ==
  {f \in files :
     /\ Parent(PurePath(f)) = PurePath(reg.dirpath)
     /\ Matches(Name(PurePath(f)))
     /\ \A k \in DOMAIN Fixed(reg).blocks :
          PurePath(Fixed(reg).blocks[k].filepath) /= PurePath(f)}

\* C26: clean removes exactly the stale files when it is confirmed or
\* forced, and nothing when the confirmation is declined; it never removes
\* the Target of a registered block
C26_CleanKeepsTargets ==
  [][\A a \in CleanArgs, answer \in BOOLEAN :
       Run(a, answer) =>
         /\ files' \subseteq files
         /\ \A k \in DOMAIN blocks' :
              exists(blocks', files, k) => exists(blocks', files', k)
         /\ files \ files' = IF a.force \/ answer THEN Stale ELSE {}]_vars

\* a run that dispatched blocks is over
DispatchOver == submitted /= {} /\ pc \in {"done", "error"}

\* what a run in pool mode has done when it is over, for the outcomes that
\* the blocks' functions had: it has reached the at-end phase, every block of
\* the execution set was executed and is complete, and a Target is there
\* for the blocks that returned and for the members of instance families
AsPoolMode ==
  /\ pc = "done"
  /\ executed = Range(blocks_to_execute)
  /\ \A k \in executed : blocks[k].complete
  /\ \A k \in executed :
       exists(blocks, files, k) <=>
         (k \in DOMAIN outcome /\ outcome[k] /= "raised") \/ IsInstance(k)

\* C27: a run in debug mode ends as a run in pool mode does for the same
\* registry, disk, flags and outcomes of the blocks, raising ones included
C27_DebugAsPool == DispatchOver => AsPoolMode

\* no two blocks of the registry bs have the same Target path
OneTargetPerBlock(bs) ==
  \A k, j \in DOMAIN bs : bs[k].filepath = bs[j].filepath => k = j

\* C28: after every add() and after the fix-up pass of run(), no two
\* registered blocks have the same Target path
C28_BlocksAndTargets ==
  /\ OneTargetPerBlock(reg.blocks)
  /\ pc \in {"fixed", "error"} => OneTargetPerBlock(blocks)

C28_Witness ==
  /\ pc = "fixed"
  /\ "f" \in DOMAIN blocks
  /\ "f" \notin DOMAIN reg.blocks
  /\ Cardinality(DOMAIN blocks) >= 3

\* the labels that the parameters ps, in the order of their declaration,
\* have in the instance made of the outer combination l1 and the zipped
\* combination l2
DeclaredLabels(ps, l1, l2) ==
  [k \in 1..Len(ps) |->
     IF ps[k].outer
       THEN l1[Len(SelectSeq(SubSeq(ps, 1, k), LAMBDA q : q.outer))]
       ELSE l2[Len(SelectSeq(SubSeq(ps, 1, k), LAMBDA q : ~q.outer))]]

\* the base label, if any, joined by '-' with the labels that are not empty
DerivedLabel(name, labels) ==
  Join((IF name /= "" THEN <<name>> ELSE <<>>) \o NonEmpty(labels))

\* the derived labels of the instances of one add() call, outer combinations
\* in the outer loop and zipped ones in the inner loop
DerivedLabels(name, ps) ==
  LET labels1 == ProductLabels(SelectSeq(ps, LAMBDA q : q.outer))
      labels2 == IF SelectSeq(ps, LAMBDA q : ~q.outer) = <<>> THEN << <<>> >>
                 ELSE ZipLabels(SelectSeq(ps, LAMBDA q : ~q.outer))
  IN Flatten([i \in 1..Len(labels1) |->
                [j \in 1..Len(labels2) |->
                   DerivedLabel(name, DeclaredLabels(ps, labels1[i], labels2[j]))]])

\* C29: the instances that an add() call creates are labelled with the base
\* label joined with the non-empty labels of their parameters in the order of
\* declaration, and with the base label alone when there is no such label
C29_DerivedLabels ==
  [][\A name \in InstanceNames, ps \in ParamLists :
       Add("f", name, ps) =>
         reg' = add_all(reg, "f",
                        Paired(DerivedLabels(name, ps), ExpandKwargs(ps)))]_vars

\* the parameter lists with outer and zipped parameters together
MixedLists ==
  {ps \in ParamLists : (\E k \in 1..Len(ps) : ps[k].outer)
                         /\ (\E k \in 1..Len(ps) : ~ps[k].outer)}

\* the product of the lengths of the outer parameters of ps from the k-th on
RECURSIVE OuterLength(_, _)
OuterLength(ps, k) ==
  IF k > Len(ps) THEN 1
  ELSE (IF ps[k].outer THEN Len(ps[k].arg) ELSE 1) * OuterLength(ps, k + 1)

\* the length of the shortest zipped parameter of ps from the k-th on; n when
\* none is shorter than n
RECURSIVE ZippedLength(_, _, _)
ZippedLength(ps, k, n) ==
  IF k > Len(ps) THEN n
  ELSE ZippedLength(ps, k + 1,
                    IF ~ps[k].outer /\ Len(ps[k].arg) < n THEN Len(ps[k].arg) ELSE n)

\* the value that the k-th parameter of ps has in the n-th instance, counted
\* from 0, when the outer combinations are the outer loop, the last outer
\* parameter varying fastest, and the zipped values are the inner loop
ValueAt(ps, k, n) ==
  LET Z == ZippedLength(ps, 1, MaxBlocks + 1)
  IN IF ps[k].outer
       THEN ps[k].arg[(((n \div Z) \div OuterLength(ps, k + 1)) % Len(ps[k].arg)) + 1]
       ELSE ps[k].arg[(n % Z) + 1]

\* C30: an add() call with outer and zipped parameters creates (product of
\* the outer lengths) x (zipped length) blocks; the zipped values are
\* replayed in order for every outer combination, and every instance gets
\* the plain keyword arguments unchanged
C30_MixedExpansion ==
  [][\A name \in InstanceNames, ps \in MixedLists :
       Add("f", name, ps) =>
         LET new == SubSeq(reg'.order, Len(reg.order) + 1, Len(reg'.order))
         IN /\ DOMAIN reg.blocks \subseteq DOMAIN reg'.blocks
            /\ Cardinality(DOMAIN reg'.blocks \ DOMAIN reg.blocks)
                 = OuterLength(ps, 1) * ZippedLength(ps, 1, MaxBlocks + 1)
            /\ Len(new) = OuterLength(ps, 1) * ZippedLength(ps, 1, MaxBlocks + 1)
            /\ \A n \in 1..Len(new) :
                 /\ new[n] \notin DOMAIN reg.blocks
                 /\ reg'.blocks[new[n]].kwargs.plain = PlainKwargs
                 /\ reg'.blocks[new[n]].kwargs.params
                      = [k \in 1..Len(ps) |-> ValueAt(ps, k, n - 1)]]_vars

\* a registry in which three outer values were crossed with two zipped
\* parameters of length 2, after an add() without parameters
C30_Witness ==
  /\ pc = "registering"
  /\ reg = add(add(RegEmpty, "f", "", <<>>), "f", "0", Mixed32)
  /\ Len(reg.order) = 7
  /\ reg.blocks[reg.order[7]].kwargs.params = <<3, 2, 2>>

\* the edges of the registry bs are those of a normalized graph: every
\* dependency names a block, X is a child of Y exactly when Y is a dependency
\* of X, and no children list names a block twice
Normalized(bs) ==
  /\ \A X \in DOMAIN bs : Range(bs[X].dependencies) \subseteq DOMAIN bs
  /\ \A X, Y \in DOMAIN bs :
       X \in Range(bs[Y].children) <=> Y \in Range(bs[X].dependencies)
  /\ \A Y \in DOMAIN bs :
       \A i, j \in 1..Len(bs[Y].children) :
          bs[Y].children[i] = bs[Y].children[j] => i = j

\* C31: the normalization of the family edges ends without an error and
\* leaves a graph in which every dependency names a registered block, a
\* dependency on a family has become one on each of its members, and the
\* children lists are the reverse of the dependency lists, without repeats
C31_NormalizedEdges ==
  [][ResolveDown =>
       /\ pc' = "normalized"
       /\ Normalized(blocks')
       /\ \A X \in DOMAIN blocks :
            \A f \in Range(blocks[X].dependencies) \cap DOMAIN instances :
               Range(instances[f]) \subseteq Range(blocks'[X].dependencies)]_vars

\* C38: depends() on a member that add() returned extends the dependency
\* list of that member only: the lists of the other blocks and the template
\* of the family stay, and a member added afterwards gets the template
C38_DependsOneMember ==
  [][/\ \A k \in DOMAIN reg.blocks, d \in {"A", "D"} :
          Depends(k, d) =>
            /\ reg'.blocks[k].dependencies = reg.blocks[k].dependencies \o <<d>>
            /\ \A j \in DOMAIN reg.blocks \ {k} :
                 reg'.blocks[j].dependencies = reg.blocks[j].dependencies
            /\ reg'.instance_dependency = reg.instance_dependency
            /\ reg'.instance_dependency["f"] = RegDeps.instance_dependency["f"]
      /\ \A name \in InstanceNames :
          Add("f", name, <<>>) =>
            \A j \in DOMAIN reg'.blocks \ DOMAIN reg.blocks :
               reg'.blocks[j].dependencies = RegDeps.instance_dependency["f"]]_vars

\* two members of the family: depends(D) was called on the first one, and the
\* other one has the dependencies of the template
C38_Witness ==
  /\ pc = "registering"
  /\ reg.name = "deps"
  /\ Len(reg.instances["f"]) = 2
  /\ reg.blocks[reg.instances["f"][1]].dependencies = <<"A", "D">>
  /\ reg.blocks[reg.instances["f"][2]].dependencies = <<"A">>

\* C40: a second application of the fix-up pass raises nothing and leaves
\* the names of the blocks, the member lists of the families and the Target
\* paths as the first application left them
C40_FixupIdempotent ==
  [][FixAgain =>
       /\ pc' = "fixed_twice"
       /\ order' = order
       /\ instances' = instances
       /\ DOMAIN blocks' = DOMAIN blocks
       /\ \A k \in DOMAIN blocks : blocks'[k].filepath = blocks[k].filepath]_vars

\* the generator has returned without having yielded a record
ReturnedEmpty == gen.pc = "returned" /\ DOMAIN gen.yielded = {}

BufferOf(h, n) == IF n \in DOMAIN h.cache THEN h.cache[n] ELSE <<>>
OnDisk(h, n) == IF n \in DOMAIN h.dset THEN h.dset[n] ELSE <<>>

\* C33: add(name, record) appends the record to the buffer of the symbol;
\* when that buffer is then full or cache_time has passed, the buffers of all
\* symbols are written to disk and the timer is reset, and otherwise the
\* records on disk and the timer are as before
C33_AddThenFlush ==
  [][\A name \in {"x", "y"}, record \in {1, 2} :
       CacheAdd(name, record) =>
         LET appended == BufferOf(h5, name) \o <<record>>
             due == Len(appended) = h5.records \/ h5.elapsed
         IN /\ ~h5'.error
            /\ due =>
                 /\ \A n \in DOMAIN h5'.cache :
                      /\ h5'.cache[n] = <<>>
                      /\ h5'.dset[n] = OnDisk(h5, n) \o
                                         (IF n = name THEN appended ELSE BufferOf(h5, n))
                 /\ ~h5'.elapsed
            /\ ~due =>
                 /\ h5'.cache[name] = appended
                 /\ \A n \in DOMAIN h5'.dset : h5'.dset[n] = OnDisk(h5, n)
                 /\ h5'.elapsed = h5.elapsed]_vars

\* C34: for every registered block, get_labels gives exactly that block for
\* the file name of its Target, and a run that is given such a file name
\* does not end with the error of an invalid argument
C34_FileNameSelectsBlock ==
  /\ \A k \in DOMAIN Fixed(reg).blocks :
       get_labels(Fixed(reg).blocks, Fixed(reg).instances,
                  Name(Fixed(reg).blocks[k].filepath))
         = [ok |-> TRUE, labels |-> <<k>>]
  /\ pc /= "error"

\* the coordinator is in the dispatch loop of pool mode
InPoolLoop == pc \in {"pool_submit", "pool_collect"}

\* the block k is in exactly one of remaining, results and collected
InOnePlace(k) ==
  /\ k \in Range(remaining) \cup DOMAIN results \cup collected
  /\ ~(k \in Range(remaining) /\ k \in DOMAIN results)
  /\ ~(k \in Range(remaining) /\ k \in collected)
  /\ ~(k \in DOMAIN results /\ k \in collected)

\* C35: in the dispatch loop of pool mode remaining and the in-flight set
\* are disjoint, every block of the execution set is in exactly one of
\* remaining, in flight and collected, no block is submitted or collected a
\* second time, and no block outside the execution set is submitted
C35_DispatchBookkeeping ==
  /\ [](InPoolLoop =>
          /\ Range(remaining) \cap DOMAIN results = {}
          /\ \A k \in Range(blocks_to_execute) : InOnePlace(k)
          /\ submitted \subseteq Range(blocks_to_execute)
          /\ num_blocks_ran = Cardinality(submitted)
          /\ \A i, j \in 1..Len(remaining) : remaining[i] = remaining[j] => i = j)
  /\ [][/\ PoolSubmit => (submitted' \ submitted) \cap (submitted \cup collected) = {}
        /\ PoolSubmit => DOMAIN results' \ DOMAIN results = submitted' \ submitted
        /\ PoolCollect => (collected' \ collected) \cap collected = {}
        /\ PoolCollect => collected' \ collected = DOMAIN results \ DOMAIN results']_vars

\* one block has been collected, one is in flight and one is still remaining
C35_Witness ==
  /\ pc = "pool_collect"
  /\ collected /= {}
  /\ DOMAIN results /= {}
  /\ remaining /= <<>>

\* C36: in pool mode, when every call of a worker returns or raises, the
\* dispatch loop that was entered is left with nothing remaining and nothing
\* in flight, and the run is at its at-end phase, whichever blocks failed
C36_DispatchTerminates ==
  (pc = "pool_submit") ~>
     (pc = "at_end" /\ remaining = <<>> /\ DOMAIN results = {})

\* the loop was left after a block with a dependent block had raised
C36_Witness ==
  /\ pc = "at_end"
  /\ remaining = <<>> /\ DOMAIN results = {}
  /\ \E k \in raised : blocks[k].children /= <<>>
                         /\ Range(blocks[k].children) \subseteq collected

\* C37: dependency resolution terminates: whatever edges were declared, the
\* downward closure loop, once entered, is left after finitely many rounds,
\* and so is the upward closure loop
C37_ClosuresTerminate ==
  /\ (pc = "down") ~> (pc /= "down")
  /\ (pc = "up") ~> (pc /= "up")

\* the command line names neither --rerun nor --delete nor the clean subcommand
PlainRun(a) == ~a.rerun.given /\ ~a.delete.given /\ a.action /= "clean"

\* C39: in a run without --rerun, without --delete and without the clean
\* subcommand no step removes a Target file and the confirmation prompt is
\* never shown, whatever names --exclude gives
C39_PlainRunKeepsTargets ==
  [][PlainRun(args') => files \subseteq files' /\ prompts' = <<>>]_vars

\* a run with --exclude and without --rerun, --delete or clean has executed a
\* block while another Target was on disk, and that Target is still there
C39_Witness ==
  /\ PlainRun(args) /\ args.exclude /= <<>>
  /\ pc = "at_end"
  /\ files0 /= {} /\ files0 \subseteq files
  /\ files /= files0
  /\ prompts = <<>>

====
